---- MODULE Spec2Model ----
(***************************************************************************)
(* A model of the tokenizer and the recursive-descent parser of            *)
(* heart/js/jscex-parser.js (a port of parse-js / UglifyJS v1).            *)
(*                                                                         *)
(* The source text is a tuple of characters (1-character strings); lexemes *)
(* are TLA+ strings built by concatenation.  Every JavaScript function     *)
(* that mutates the scanner record S (or the parser record) and may throw  *)
(* becomes an operator from the record to a result                         *)
(*      [S |-> record after, ret |-> returned value,                       *)
(*       thrown |-> whether the call threw, ex |-> exception]              *)
(* where ex is NoEx when the call returned normally.                       *)
(***************************************************************************)
EXTENDS Integers, Sequences, FiniteSets, TLC

VARIABLES
    T,        \* tokenizer: the scanner record S of tokenizer($TEXT)
    tok,      \* the value returned by the latest call of the tokenizer
    ptok,     \* the value returned by the call before that
    before,   \* the scanner record as it was when the latest call was made
    err,      \* the exception the latest call threw to its caller
    mode,     \* which call was made last: "new", "plain", "force"; for
              \* parse: "new", "toplevel", "returned", "thrown"
    parser,   \* parser: the record S of parse($TEXT, exigent_mode)
    ast,      \* parser: the array a of the statements of the top level
    prog,     \* the program whose text was given to parse
    pair,     \* two tokenizers, or two parses, that are used in turns: of
              \* each one its record S and what its calls returned so far
    snap      \* the caller of next_token.context: the object it was given,
              \* and the tokens it read after that and after giving it back

vars ==
    <<T, tok, ptok, before, err, mode, parser, ast, prog, pair, snap>>

(***************************************************************************)
(* JavaScript values that are not strings, numbers or arrays.              *)
(***************************************************************************)
null == "<null>"

undefined == "<undefined>"

Min(s) == CHOOSE x \in s : \A y \in s : x <= y

(***************************************************************************)
(* Exceptions.                                                             *)
(***************************************************************************)
NoEx == [kind |-> "none", message |-> "", line |-> 0, col |-> 0, pos |-> 0]

\* var EX_EOF = {};
EX_EOF == [kind |-> "EX_EOF", message |-> "", line |-> 0, col |-> 0, pos |-> 0]

\* function JS_Parse_Error(message, line, col, pos)
JS_Parse_Error(message, line, col, pos) ==
    [kind |-> "JS_Parse_Error", message |-> message,
     line |-> line, col |-> col, pos |-> pos]

Ret(S, v) == [S |-> S, ret |-> v, thrown |-> FALSE, ex |-> NoEx]

Throw(S, e) == [S |-> S, ret |-> undefined, thrown |-> TRUE, ex |-> e]

Ok(r) == ~r.thrown

\* function js_error(message, line, col, pos)
js_error(S, message, line, col, pos) ==
    Throw(S, JS_Parse_Error(message, line, col, pos))

(***************************************************************************)
(* Call(f, S, a) is the call f(a) of the function named f of the source,   *)
(* made when the record the function works on is S; it is defined after    *)
(* the functions.  Functions call each other through it.                   *)
(***************************************************************************)
RECURSIVE Call(_, _, _)

(***************************************************************************)
(* Tokenizer constants.                                                    *)
(***************************************************************************)
KEYWORDS ==
    {"break", "case", "catch", "const", "continue", "default", "delete",
     "do", "else", "finally", "for", "function", "if", "in", "instanceof",
     "new", "return", "switch", "throw", "try", "typeof", "var", "void",
     "while", "with"}

KEYWORDS_BEFORE_EXPRESSION ==
    {"return", "new", "delete", "throw", "else", "case"}

KEYWORDS_ATOM == {"false", "null", "true", "undefined"}

OPERATOR_CHARS ==
    {"+", "-", "*", "&", "%", "=", "<", ">", "!", "?", "|", "~", "^"}

OPERATORS ==
    {"in", "instanceof", "typeof", "new", "void", "delete", "++", "--",
     "+", "-", "!", "~", "&", "|", "^", "*", "/", "%", ">>", "<<", ">>>",
     "<", ">", "<=", ">=", "==", "===", "!=", "!==", "?", "=", "+=", "-=",
     "/=", "*=", "%=", ">>=", "<<=", ">>>=", "|=", "^=", "&=", "&&", "||"}

\* The fifth character of the source's list is U+200B.
ZWSP == "<U+200B>"

WHITESPACE_CHARS == {" ", "\n", "\r", "\t", ZWSP}

PUNC_BEFORE_EXPRESSION == {"[", "{", "}", "(", ",", ".", ";", ":"}

PUNC_CHARS == {"[", "]", "{", "}", "(", ")", ",", ";", ":"}

UNARY_PREFIX == {"typeof", "void", "delete", "--", "++", "!", "~", "-", "+"}

UNARY_POSTFIX == {"--", "++"}

(***************************************************************************)
(* Character classes.  The Unicode tables of the source are cut down to    *)
(* the ASCII range: every text of the model is made of ASCII characters    *)
(* and of the named characters ZWSP, BOM, LS, PS.                          *)
(***************************************************************************)
BOM == "<U+FEFF>"

LS == "<U+2028>"

PS == "<U+2029>"

DecDigits == {"0", "1", "2", "3", "4", "5", "6", "7", "8", "9"}

OctDigits == {"0", "1", "2", "3", "4", "5", "6", "7"}

HexDigits ==
    DecDigits \cup {"a", "b", "c", "d", "e", "f", "A", "B", "C", "D", "E", "F"}

Letters ==
    {"a", "b", "c", "d", "e", "f", "g", "h", "i", "j", "k", "l", "m", "n",
     "o", "p", "q", "r", "s", "t", "u", "v", "w", "x", "y", "z",
     "A", "B", "C", "D", "E", "F", "G", "H", "I", "J", "K", "L", "M", "N",
     "O", "P", "Q", "R", "S", "T", "U", "V", "W", "X", "Y", "Z"}

is_letter(ch) == ch \in Letters

is_digit(ch) == ch \in DecDigits

is_alphanumeric_char(ch) == is_digit(ch) \/ is_letter(ch)

is_unicode_combining_mark(ch) == FALSE

is_unicode_connector_punctuation(ch) == ch = "_"

is_identifier_start(ch) == ch = "$" \/ ch = "_" \/ is_letter(ch)

is_identifier_char(ch) ==
    \/ is_identifier_start(ch)
    \/ is_unicode_combining_mark(ch)
    \/ is_digit(ch)
    \/ is_unicode_connector_punctuation(ch)

(***************************************************************************)
(* Numbers.  A JavaScript number is kept as the pair [m, e] that stands    *)
(* for m * 10^e, with m not divisible by 10 (and [0, 0] for zero); NaN is   *)
(* the value of a lexeme that none of the three patterns matches.          *)
(***************************************************************************)
NaN == [m |-> 0, e |-> 0, nan |-> TRUE]

RECURSIVE Normal(_, _)
Normal(m, e) ==
    IF m = 0 THEN [m |-> 0, e |-> 0, nan |-> FALSE]
    ELSE IF m % 10 = 0 THEN Normal(m \div 10, e + 1)
    ELSE [m |-> m, e |-> e, nan |-> FALSE]

DigitValue(ch) ==
    CASE ch \in {"0"} -> 0 [] ch \in {"1"} -> 1 [] ch \in {"2"} -> 2
      [] ch \in {"3"} -> 3 [] ch \in {"4"} -> 4 [] ch \in {"5"} -> 5
      [] ch \in {"6"} -> 6 [] ch \in {"7"} -> 7 [] ch \in {"8"} -> 8
      [] ch \in {"9"} -> 9 [] ch \in {"a", "A"} -> 10
      [] ch \in {"b", "B"} -> 11 [] ch \in {"c", "C"} -> 12
      [] ch \in {"d", "D"} -> 13 [] ch \in {"e", "E"} -> 14
      [] ch \in {"f", "F"} -> 15

\* parseInt(digits, base) of a non-empty run of digits of that base
RECURSIVE ParseInt(_, _)
ParseInt(s, base) ==
    IF s = <<>> THEN 0
    ELSE ParseInt(SubSeq(s, 1, Len(s) - 1), base) * base + DigitValue(s[Len(s)])

AllIn(s, set) == \A i \in 1..Len(s) : s[i] \in set

Count(s, c) == Cardinality({i \in 1..Len(s) : s[i] = c})

Drop(s, n) == SubSeq(s, n + 1, Len(s))

\* /^0x[0-9a-f]+$/i
RE_HEX_NUMBER(s) ==
    /\ Len(s) >= 3
    /\ s[1] = "0"
    /\ s[2] \in {"x", "X"}
    /\ AllIn(Drop(s, 2), HexDigits)

\* /^0[0-7]+$/
RE_OCT_NUMBER(s) ==
    /\ Len(s) >= 2
    /\ s[1] = "0"
    /\ AllIn(Drop(s, 1), OctDigits)

\* \d*\.?\d*
DecMantissa(s) == AllIn(s, DecDigits \cup {"."}) /\ Count(s, ".") <= 1

\* [+-]?\d*(?:\d\.?|\.?\d)\d*
DecExponent(s) ==
    LET r == IF s # <<>> /\ s[1] \in {"+", "-"} THEN Drop(s, 1) ELSE s
    IN  /\ DecMantissa(r)
        /\ \E i \in 1..Len(r) : r[i] \in DecDigits

\* /^\d*\.?\d*(?:e[+-]?\d*(?:\d\.?|\.?\d)\d*)?$/i
RE_DEC_NUMBER(s) ==
    \/ DecMantissa(s)
    \/ \E k \in 1..Len(s) :
          /\ s[k] \in {"e", "E"}
          /\ DecMantissa(SubSeq(s, 1, k - 1))
          /\ DecExponent(Drop(s, k))

\* parseFloat of a lexeme that RE_DEC_NUMBER matches
ParseFloat(s) ==
    LET ks   == {k \in 1..Len(s) : s[k] \in {"e", "E"}}
        mant == IF ks = {} THEN s ELSE SubSeq(s, 1, Min(ks) - 1)
        expo == IF ks = {} THEN <<>> ELSE Drop(s, Min(ks))
        dots == {k \in 1..Len(mant) : mant[k] = "."}
        ip   == IF dots = {} THEN mant ELSE SubSeq(mant, 1, Min(dots) - 1)
        fp   == IF dots = {} THEN <<>> ELSE Drop(mant, Min(dots))
        neg  == expo # <<>> /\ expo[1] = "-"
        eraw == IF expo # <<>> /\ expo[1] \in {"+", "-"}
                THEN Drop(expo, 1) ELSE expo
        edot == {k \in 1..Len(eraw) : eraw[k] = "."}
        eint == IF edot = {} THEN eraw ELSE SubSeq(eraw, 1, Min(edot) - 1)
        ev   == IF eint = <<>> THEN 0 ELSE ParseInt(eint, 10)
    IN  IF ip = <<>> /\ fp = <<>> THEN NaN
        ELSE IF ks # {} /\ eint = <<>>
             THEN Normal(ParseInt(ip \o fp, 10), 0 - Len(fp))
        ELSE Normal(ParseInt(ip \o fp, 10),
                    (IF neg THEN 0 - ev ELSE ev) - Len(fp))

\* function parse_js_number(num)
parse_js_number(num) ==
    IF RE_HEX_NUMBER(num) THEN Normal(ParseInt(Drop(num, 2), 16), 0)
    ELSE IF RE_OCT_NUMBER(num) THEN Normal(ParseInt(Drop(num, 1), 8), 0)
    ELSE IF RE_DEC_NUMBER(num) THEN ParseFloat(num)
    ELSE NaN

isNaN(v) == v.nan

(***************************************************************************)
(* The tokenizer.  S is the scanner record of tokenizer($TEXT).            *)
(***************************************************************************)

\* $TEXT.replace(/\r\n?|[\n\u2028\u2029]/g, "\n"): the "\n" of a "\r\n" is
\* dropped, and every other character stays, a "\r", "\u2028" or "\u2029"
\* as "\n"
NormalizeNewlines(t) ==
    LET kept == {i \in DOMAIN t : ~(t[i] = "\n" /\ i > 1 /\ t[i - 1] = "\r")}
        at(k) == IF kept = DOMAIN t THEN k
                 ELSE CHOOSE i \in kept :
                          Cardinality({j \in kept : j <= i}) = k
    IN  [k \in 1..Cardinality(kept) |->
            IF t[at(k)] \in {"\r", LS, PS} THEN "\n" ELSE t[at(k)]]

\* .replace(/^\uFEFF/, '')
StripBOM(t) == IF t # <<>> /\ t[1] = BOM THEN Drop(t, 1) ELSE t

\* var S = { text: ..., pos: 0, ... } of function tokenizer($TEXT)
tokenizer(TEXT) ==
    [text |-> StripBOM(NormalizeNewlines(TEXT)),
     pos |-> 0, tokpos |-> 0,
     line |-> 0, tokline |-> 0,
     col |-> 0, tokcol |-> 0,
     newline_before |-> FALSE,
     regex_allowed |-> FALSE,
     comments_before |-> <<>>]

\* String.prototype.charAt: the empty string past the end
charAt(text, i) == IF i >= 0 /\ i < Len(text) THEN text[i + 1] ELSE ""

\* String.prototype.indexOf(what, from), what a non-empty tuple of characters
indexOf(text, what, from) ==
    LET hits == {i \in from..(Len(text) - Len(what)) :
                    \A k \in 1..Len(what) : text[i + k] = what[k]}
    IN  IF hits = {} THEN -1 ELSE Min(hits)

\* The characters of text from offset a up to, not including, offset b
substring(text, a, b) == SubSeq(text, a + 1, b)

\* The string spelled by a tuple of characters
RECURSIVE Str(_)
Str(t) == IF t = <<>> THEN "" ELSE t[1] \o Str(Drop(t, 1))

\* function peek()
peek(S) == charAt(S.text, S.pos)

\* function next(signal_eof)
next(S, signal_eof) ==
    LET ch == charAt(S.text, S.pos)
        S1 == [S EXCEPT !.pos = S.pos + 1]
    IN  IF signal_eof /\ ch = "" THEN Throw(S1, EX_EOF)
        ELSE IF ch = "\n"
             THEN Ret([S1 EXCEPT !.newline_before = TRUE,
                                 !.line = S.line + 1,
                                 !.col = 0], ch)
        ELSE Ret([S1 EXCEPT !.col = S.col + 1], ch)

\* function find(what, signal_eof)
find(S, what, signal_eof) ==
    LET pos == indexOf(S.text, what, S.pos)
    IN  IF signal_eof /\ pos = -1 THEN Throw(S, EX_EOF) ELSE Ret(S, pos)

\* start_token() that leaves tokpos as it was
start_token_stale(S) == [S EXCEPT !.tokline = S.line, !.tokcol = S.col]

\* start_token() that takes tokpos from the column
start_token_col(S) ==
    [S EXCEPT !.tokline = S.line, !.tokcol = S.col, !.tokpos = S.col]

\* function start_token()
start_token(S) ==
    [S EXCEPT !.tokline = S.line, !.tokcol = S.col, !.tokpos = S.pos]

\* The first disjunct of token(): an operator that is not a postfix one
RegexAfterOperator(type, value) ==
    type = "operator" /\ value \notin UNARY_POSTFIX

\* function token(type, value, is_comment)
token(S, type, value, is_comment) ==
    LET regex_allowed ==
            \/ RegexAfterOperator(type, value)
            \/ (type = "keyword" /\ value \in KEYWORDS_BEFORE_EXPRESSION)
            \/ (type = "punc" /\ value \in PUNC_BEFORE_EXPRESSION)
        base == [type |-> type, value |-> value,
                 line |-> S.tokline, col |-> S.tokcol, pos |-> S.tokpos,
                 nlb |-> S.newline_before]
    IN  IF is_comment
        THEN Ret([S EXCEPT !.regex_allowed = regex_allowed,
                           !.newline_before = FALSE], base)
        ELSE Ret([S EXCEPT !.regex_allowed = regex_allowed,
                           !.comments_before = <<>>,
                           !.newline_before = FALSE],
                 [type |-> type, value |-> value,
                  line |-> S.tokline, col |-> S.tokcol, pos |-> S.tokpos,
                  nlb |-> S.newline_before,
                  comments_before |-> S.comments_before])

\* function skip_whitespace()
RECURSIVE skip_whitespace(_)
skip_whitespace(S) ==
    IF peek(S) \in WHITESPACE_CHARS
    THEN skip_whitespace(next(S, FALSE).S)
    ELSE S

\* function parse_error(err)
parse_error(S, msg) == js_error(S, msg, S.tokline, S.tokcol, S.tokpos)

\* The loop of read_while(pred) with the predicate of read_num(prefix):
\* i counts the calls of the predicate, num is the lexeme read so far.
RECURSIVE read_num_while(_, _, _, _, _, _, _, _)
read_num_while(S, prefix, i, has_e, after_e, has_x, has_dot, num) ==
    LET ch == peek(S)
        S1 == next(S, FALSE).S
    IN  IF ch = "" THEN Ret(S, num)
        ELSE IF ch \in {"x", "X"}
             THEN IF has_x THEN Ret(S, num)
                  ELSE read_num_while(S1, prefix, i + 1, has_e, after_e,
                                      TRUE, has_dot, Append(num, ch))
        ELSE IF ~has_x /\ ch \in {"E", "e"}
             THEN IF has_e THEN Ret(S, num)
                  ELSE read_num_while(S1, prefix, i + 1, TRUE, TRUE,
                                      has_x, has_dot, Append(num, ch))
        ELSE IF ch = "-"
             THEN IF after_e \/ (i = 0 /\ prefix = "")
                  THEN read_num_while(S1, prefix, i + 1, has_e, after_e,
                                      has_x, has_dot, Append(num, ch))
                  ELSE Ret(S, num)
        ELSE IF ch = "+"
             THEN IF after_e
                  THEN read_num_while(S1, prefix, i + 1, has_e, after_e,
                                      has_x, has_dot, Append(num, ch))
                  ELSE Ret(S, num)
        ELSE IF ch = "."
             THEN IF ~has_dot /\ ~has_x
                  THEN read_num_while(S1, prefix, i + 1, has_e, FALSE,
                                      has_x, TRUE, Append(num, ch))
                  ELSE Ret(S, num)
        ELSE IF is_alphanumeric_char(ch)
             THEN read_num_while(S1, prefix, i + 1, has_e, FALSE,
                                 has_x, has_dot, Append(num, ch))
        ELSE Ret(S, num)

\* function read_num(prefix); prefix is "" when the argument is left out
read_num(S, prefix) ==
    LET r     == read_num_while(S, prefix, 0, FALSE, FALSE, FALSE,
                                prefix = ".", <<>>)
        num   == IF prefix # "" THEN <<prefix>> \o r.ret ELSE r.ret
        valid == parse_js_number(num)
    IN  IF ~isNaN(valid) THEN token(r.S, "num", valid, FALSE)
        ELSE parse_error(r.S, "Invalid syntax: " \o Str(num))

(***************************************************************************)
(* Characters by code (String.fromCharCode, charCodeAt): the printable     *)
(* ASCII characters, code 32 to 126, and the control characters the        *)
(* escapes of read_escaped_char name.  A code outside this table gives a   *)
(* character that belongs to no class of the tokenizer.                    *)
(***************************************************************************)
Ascii ==
    <<" ", "!", "\"", "#", "$", "%", "&", "'", "(", ")", "*", "+", ",", "-",
      ".", "/", "0", "1", "2", "3", "4", "5", "6", "7", "8", "9", ":", ";",
      "<", "=", ">", "?", "@", "A", "B", "C", "D", "E", "F", "G", "H", "I",
      "J", "K", "L", "M", "N", "O", "P", "Q", "R", "S", "T", "U", "V", "W",
      "X", "Y", "Z", "[", "\\", "]", "^", "_", "<U+0060>", "a", "b", "c", "d", "e",
      "f", "g", "h", "i", "j", "k", "l", "m", "n", "o", "p", "q", "r", "s",
      "t", "u", "v", "w", "x", "y", "z", "{", "|", "}", "~">>

NUL == "<U+0000>"

BS == "<U+0008>"

VT == "<U+000B>"

fromCharCode(n) ==
    IF n >= 32 /\ n <= 126 THEN Ascii[n - 31]
    ELSE IF n = 0 THEN NUL
    ELSE IF n = 8 THEN BS
    ELSE IF n = 9 THEN "\t"
    ELSE IF n = 10 THEN "\n"
    ELSE IF n = 11 THEN VT
    ELSE IF n = 12 THEN "\f"
    ELSE IF n = 13 THEN "\r"
    ELSE "<U+" \o ToString(n) \o ">"

\* ch.charCodeAt(0), as the text that the error message of read_name shows
CodeText(ch) ==
    LET at == {i \in 1..Len(Ascii) : Ascii[i] = ch}
    IN  IF at # {} THEN ToString(Min(at) + 31) ELSE ch

\* function hex_bytes(n), num the value read so far
RECURSIVE hex_bytes(_, _, _)
hex_bytes(S, n, num) ==
    IF n > 0
    THEN LET c == next(S, TRUE)
         IN  IF c.thrown THEN c
             ELSE IF c.ret \notin HexDigits
                  THEN parse_error(c.S, "Invalid hex-character pattern in string")
             ELSE hex_bytes(c.S, n - 1, num * 16 + DigitValue(c.ret))
    ELSE Ret(S, num)

\* function read_escaped_char()
read_escaped_char(S) ==
    LET c == next(S, TRUE)
    IN  IF c.thrown THEN c
        ELSE IF c.ret = "n" THEN Ret(c.S, "\n")
        ELSE IF c.ret = "r" THEN Ret(c.S, "\r")
        ELSE IF c.ret = "t" THEN Ret(c.S, "\t")
        ELSE IF c.ret = "b" THEN Ret(c.S, BS)
        ELSE IF c.ret = "v" THEN Ret(c.S, VT)
        ELSE IF c.ret = "f" THEN Ret(c.S, "\f")
        ELSE IF c.ret = "0" THEN Ret(c.S, NUL)
        ELSE IF c.ret = "x"
             THEN LET h == hex_bytes(c.S, 2, 0)
                  IN  IF h.thrown THEN h ELSE Ret(h.S, fromCharCode(h.ret))
        ELSE IF c.ret = "u"
             THEN LET h == hex_bytes(c.S, 4, 0)
                  IN  IF h.thrown THEN h ELSE Ret(h.S, fromCharCode(h.ret))
        ELSE c

\* function with_eof_error(eof_error, cont); r is what cont() did
with_eof_error(eof_error, r) ==
    IF r.ex.kind = "EX_EOF" THEN parse_error(r.S, eof_error) ELSE r

\* The for (;;) loop of read_string()
RECURSIVE read_string_loop(_, _, _)
read_string_loop(S, quote, ret) ==
    LET c == next(S, TRUE)
    IN  IF c.thrown THEN c
        ELSE IF c.ret = "\\"
             THEN LET e == Call("read_escaped_char", c.S, undefined)
                  IN  IF e.thrown THEN e
                      ELSE read_string_loop(e.S, quote, ret \o e.ret)
        ELSE IF c.ret = quote THEN token(c.S, "string", ret, FALSE)
        ELSE read_string_loop(c.S, quote, ret \o c.ret)

\* function read_string()
read_string(S) ==
    with_eof_error("Unterminated string constant",
        LET q == next(S, FALSE) IN read_string_loop(q.S, q.ret, ""))

\* function read_line_comment()
read_line_comment(S) ==
    LET S1 == next(S, FALSE).S
        i  == find(S1, <<"\n">>, FALSE).ret
    IN  IF i = -1
        THEN token([S1 EXCEPT !.pos = Len(S1.text)], "comment1",
                   Str(Drop(S1.text, S1.pos)), TRUE)
        ELSE token([S1 EXCEPT !.pos = i], "comment1",
                   Str(substring(S1.text, S1.pos, i)), TRUE)

\* The value of S.newline_before after a block comment with body text
CommentNewline(S, text) == indexOf(text, <<"\n">>, 0) >= 0

\* function read_multiline_comment()
read_multiline_comment(S) ==
    LET S1 == next(S, FALSE).S
    IN  with_eof_error("Unterminated multiline comment",
            LET f == find(S1, <<"*", "/">>, TRUE)
            IN  IF f.thrown THEN f
                ELSE LET i    == f.ret
                         text == substring(S1.text, S1.pos, i)
                         t    == token(S1, "comment2", Str(text), TRUE)
                     IN  Ret([t.S EXCEPT
                                !.pos = i + 2,
                                !.line = S1.line + Count(text, "\n"),
                                !.newline_before = CommentNewline(S1, text)],
                             t.ret))

\* function read_name(), the while loop
RECURSIVE read_name_loop(_, _, _)
read_name_loop(S, backslash, name) ==
    LET ch == peek(S)
    IN  IF ~backslash
        THEN IF ch = "\\" THEN read_name_loop(next(S, FALSE).S, TRUE, name)
             ELSE IF is_identifier_char(ch)
                  THEN read_name_loop(next(S, FALSE).S, FALSE, name \o ch)
             ELSE Ret(S, name)
        ELSE IF ch # "u"
             THEN parse_error(S, "Expecting UnicodeEscapeSequence -- uXXXX")
             ELSE LET e == Call("read_escaped_char", S, undefined)
                  IN  IF e.thrown THEN e
                      ELSE IF ~is_identifier_char(e.ret)
                           THEN parse_error(e.S,
                                    "Unicode char: " \o CodeText(e.ret)
                                    \o " is not valid in identifier")
                      ELSE read_name_loop(e.S, FALSE, name \o e.ret)

\* function read_name()
read_name(S) == read_name_loop(S, FALSE, "")

\* The while loop of read_regexp()
RECURSIVE read_regexp_loop(_, _, _, _)
read_regexp_loop(S, prev_backslash, regexp, in_class) ==
    LET c == next(S, TRUE)
    IN  IF c.thrown THEN c
        ELSE IF prev_backslash
             THEN read_regexp_loop(c.S, FALSE, regexp \o "\\" \o c.ret, in_class)
        ELSE IF c.ret = "["
             THEN read_regexp_loop(c.S, FALSE, regexp \o c.ret, TRUE)
        ELSE IF c.ret = "]" /\ in_class
             THEN read_regexp_loop(c.S, FALSE, regexp \o c.ret, FALSE)
        ELSE IF c.ret = "/" /\ ~in_class
             THEN Ret(c.S, regexp)
        ELSE IF c.ret = "\\"
             THEN read_regexp_loop(c.S, TRUE, regexp, in_class)
        ELSE read_regexp_loop(c.S, FALSE, regexp \o c.ret, in_class)

\* function read_regexp()
read_regexp(S) ==
    with_eof_error("Unterminated regular expression",
        LET b == read_regexp_loop(S, FALSE, "", FALSE)
        IN  IF b.thrown THEN b
            ELSE LET mods == Call("read_name", b.S, undefined)
                 IN  IF mods.thrown THEN mods
                     ELSE token(mods.S, "regexp", <<b.ret, mods.ret>>, FALSE))

\* grow that takes one more character at most
grow_once(S, op) ==
    IF peek(S) = "" THEN Ret(S, op)
    ELSE LET bigger == op \o peek(S)
         IN  IF bigger \in OPERATORS
             THEN Ret(next(S, FALSE).S, bigger)
             ELSE Ret(S, op)

\* function grow(op) of read_operator
RECURSIVE grow(_, _)
grow(S, op) ==
    IF peek(S) = "" THEN Ret(S, op)
    ELSE LET bigger == op \o peek(S)
         IN  IF bigger \in OPERATORS
             THEN grow(next(S, FALSE).S, bigger)
             ELSE Ret(S, op)

\* function read_operator(prefix); prefix is "" when the argument is left out
read_operator(S, prefix) ==
    LET first == IF prefix # "" THEN Ret(S, prefix) ELSE next(S, FALSE)
        g     == grow(first.S, first.ret)
    IN  token(g.S, "operator", g.ret, FALSE)

\* function handle_dot()
handle_dot(S) ==
    LET S1 == next(S, FALSE).S
    IN  IF is_digit(peek(S1)) THEN Call("read_num", S1, ".")
        ELSE token(S1, "punc", ".", FALSE)

\* function read_word()
read_word(S) ==
    LET word == Call("read_name", S, undefined)
    IN  IF word.thrown THEN word
        ELSE IF word.ret \notin KEYWORDS THEN token(word.S, "name", word.ret, FALSE)
        ELSE IF word.ret \in OPERATORS THEN token(word.S, "operator", word.ret, FALSE)
        ELSE IF word.ret \in KEYWORDS_ATOM THEN token(word.S, "atom", word.ret, FALSE)
        ELSE token(word.S, "keyword", word.ret, FALSE)

\* The two comment cases of handle_slash() without S.regex_allowed =
\* regex_allowed: the flag stays as token() left it for the comment
slash_comment_forgets(c, regex_allowed) ==
    IF c.thrown THEN c
    ELSE Call("next_token",
              [c.S EXCEPT
                  !.comments_before = Append(c.S.comments_before, c.ret)],
              FALSE)

\* The two comment cases of handle_slash(): c is what reading the comment did
slash_comment(c, regex_allowed) ==
    IF c.thrown THEN c
    ELSE Call("next_token",
              [c.S EXCEPT
                  !.comments_before = Append(c.S.comments_before, c.ret),
                  !.regex_allowed = regex_allowed],
              FALSE)

\* function handle_slash()
handle_slash(S) ==
    LET S1 == next(S, FALSE).S
        regex_allowed == S1.regex_allowed
    IN  IF peek(S1) = "/"
        THEN slash_comment(Call("read_line_comment", S1, undefined),
                           regex_allowed)
        ELSE IF peek(S1) = "*"
        THEN slash_comment(Call("read_multiline_comment", S1, undefined),
                           regex_allowed)
        ELSE IF S1.regex_allowed THEN Call("read_regexp", S1, undefined)
        ELSE Call("read_operator", S1, "/")

\* The end of input signalled the way next(true) signals it
next_token_eof_throws(S) == Throw(S, EX_EOF)

\* if (!ch) return token("eof"); of next_token
next_token_eof(S) == token(S, "eof", undefined, FALSE)

\* function next_token(force_regexp)
next_token(S, force_regexp) ==
    IF force_regexp THEN Call("read_regexp", S, undefined)
    ELSE LET S1 == start_token(skip_whitespace(S))
             ch == peek(S1)
         IN  IF ch = "" THEN next_token_eof(S1)
             ELSE IF is_digit(ch) THEN Call("read_num", S1, "")
             ELSE IF ch = "\"" \/ ch = "'" THEN Call("read_string", S1, undefined)
             ELSE IF ch \in PUNC_CHARS
                  THEN LET c == next(S1, FALSE)
                       IN  token(c.S, "punc", c.ret, FALSE)
             ELSE IF ch = "." THEN Call("handle_dot", S1, undefined)
             ELSE IF ch = "/" THEN Call("handle_slash", S1, undefined)
             ELSE IF ch \in OPERATOR_CHARS THEN Call("read_operator", S1, "")
             ELSE IF ch = "\\" \/ is_identifier_start(ch)
                  THEN Call("read_word", S1, undefined)
             ELSE parse_error(S1, "Unexpected character '" \o ch \o "'")

(***************************************************************************)
(* Parser constants.                                                       *)
(***************************************************************************)

\* var ASSIGNMENT: "=" maps to true, "op=" maps to "op"
ASSIGNMENT ==
    [val \in {"=", "+=", "-=", "/=", "*=", "%=", ">>=", "<<=", ">>>=",
              "|=", "^=", "&="} |->
        CASE val = "=" -> TRUE
          [] val = "+=" -> "+" [] val = "-=" -> "-" [] val = "/=" -> "/"
          [] val = "*=" -> "*" [] val = "%=" -> "%" [] val = ">>=" -> ">>"
          [] val = "<<=" -> "<<" [] val = ">>>=" -> ">>>"
          [] val = "|=" -> "|" [] val = "^=" -> "^" [] val = "&=" -> "&"]

\* The rows of operators given to PRECEDENCE, lowest precedence first
PRECEDENCE_rows ==
    <<{"||"}, {"&&"}, {"|"}, {"^"}, {"&"},
      {"==", "===", "!=", "!=="},
      {"<", ">", "<=", ">=", "in", "instanceof"},
      {">>", "<<", ">>>"},
      {"+", "-"},
      {"*", "/", "%"}>>

\* var PRECEDENCE: ret[b[j]] = n for the n-th row b
PRECEDENCE ==
    [op \in UNION {PRECEDENCE_rows[n] : n \in DOMAIN PRECEDENCE_rows} |->
        CHOOSE n \in DOMAIN PRECEDENCE_rows : op \in PRECEDENCE_rows[n]]

STATEMENTS_WITH_LABELS == {"for", "do", "while", "switch"}

ATOMIC_START_TOKEN == {"atom", "num", "string", "regexp", "name"}

(***************************************************************************)
(* Parser.  P is the record S of parse($TEXT, exigent_mode); the flag      *)
(* exigent_mode, which the functions of parse() see in their closure, is   *)
(* carried in the record.  embed_tokens is false.  A token that is null  *)
(* is NoToken.  A node as(tag, ...) of the tree is the tuple <<tag, ...>>. *)
(***************************************************************************)
NoToken ==
    [type |-> "none", value |-> undefined, line |-> 0, col |-> 0, pos |-> 0,
     nlb |-> FALSE, comments_before |-> <<>>]

\* A TypeError of the JavaScript engine: a property read of undefined
TypeError(message) ==
    [kind |-> "TypeError", message |-> message, line |-> 0, col |-> 0, pos |-> 0]

\* var S = {...} of parse
parse_S(TEXT, exigent_mode) ==
    [input |-> tokenizer(TEXT),
     token |-> NoToken,
     prev |-> NoToken,
     peeked |-> NoToken,
     in_function |-> 0,
     in_loop |-> 0,
     labels |-> <<>>,
     exigent_mode |-> exigent_mode]

\* function is_token(token, type, val)
is_token(tkn, type, val) ==
    tkn.type = type /\ (val = null \/ tkn.value = val)

\* function is(type, value) of parse
is(P, type, value) == is_token(P.token, type, value)

\* S.input() seen from the parser record: the scanner moves, P.input follows
input(P, force_regexp) ==
    LET r == Call("next_token", P.input, force_regexp)
    IN  [S |-> [P EXCEPT !.input = r.S], ret |-> r.ret, thrown |-> r.thrown,
         ex |-> r.ex]

\* function peek() of parse
parse_peek(P) ==
    IF P.peeked.type # "none" THEN Ret(P, P.peeked)
    ELSE LET r == input(P, FALSE)
         IN  IF r.thrown THEN r
             ELSE Ret([r.S EXCEPT !.peeked = r.ret], r.ret)

\* next() that reads one token ahead into S.peeked after it has moved on
parse_next_reads_ahead(P) ==
    LET P1 == [P EXCEPT !.prev = P.token]
        r == IF P1.peeked.type # "none"
             THEN Ret([P1 EXCEPT !.token = P1.peeked, !.peeked = NoToken],
                      P1.peeked)
             ELSE LET t == input(P1, FALSE)
                  IN  IF t.thrown THEN t
                      ELSE Ret([t.S EXCEPT !.token = t.ret], t.ret)
        ahead == input(r.S, FALSE)
    IN  IF r.thrown THEN r
        ELSE IF ahead.thrown THEN ahead
        ELSE Ret([ahead.S EXCEPT !.peeked = ahead.ret], r.ret)

\* function next() of parse
parse_next(P) ==
    LET P1 == [P EXCEPT !.prev = P.token]
    IN  IF P1.peeked.type # "none"
        THEN Ret([P1 EXCEPT !.token = P1.peeked, !.peeked = NoToken], P1.peeked)
        ELSE LET r == input(P1, FALSE)
             IN  IF r.thrown THEN r
                 ELSE Ret([r.S EXCEPT !.token = r.ret], r.ret)

\* function prev() of parse
prev(P) == P.prev

\* function croak(msg, line, col, pos); given is the set of the position
\* arguments that the caller passes (the others are == null)
croak(P, msg, given, line, col, pos) ==
    LET ctx == P.input
    IN  js_error(P, msg,
                 IF "line" \in given THEN line ELSE ctx.tokline,
                 IF "col" \in given THEN col ELSE ctx.tokcol,
                 IF "pos" \in given THEN pos ELSE ctx.tokpos)

\* function token_error(token, msg)
token_error(P, tkn, msg) ==
    croak(P, msg, {"line", "col"}, tkn.line, tkn.col, 0)

\* Number.prototype.toString for the numbers a token can hold (no exponent
\* notation)
RECURSIVE Zeros(_)
Zeros(n) == IF n <= 0 THEN "" ELSE "0" \o Zeros(n - 1)

RECURSIVE Pow10(_)
Pow10(n) == IF n <= 0 THEN 1 ELSE 10 * Pow10(n - 1)

NumberText(v) ==
    IF v.nan THEN "NaN"
    ELSE IF v.e >= 0 THEN ToString(v.m) \o Zeros(v.e)
    ELSE LET whole == v.m \div Pow10(0 - v.e)
             frac == ToString(v.m % Pow10(0 - v.e))
         IN  ToString(whole) \o "." \o Zeros((0 - v.e) - Len(frac)) \o frac

\* "" + token.value
ValueText(tkn) ==
    CASE tkn.type = "num" -> NumberText(tkn.value)
      [] tkn.type = "regexp" -> tkn.value[1] \o "," \o tkn.value[2]
      [] tkn.type = "eof" -> "undefined"
      [] OTHER -> tkn.value

\* function unexpected(token); unexpected() is unexpected(NoToken)
unexpected(P, tkn) ==
    LET t == IF tkn.type = "none" THEN P.token ELSE tkn
    IN  token_error(P, t,
            "Unexpected token: " \o t.type \o " (" \o ValueText(t) \o ")")

\* function expect_token(type, val)
expect_token(P, type, val) ==
    IF is(P, type, val) THEN Call("next", P, undefined)
    ELSE token_error(P, P.token,
             "Unexpected token " \o P.token.type \o ", expected " \o type)

\* function expect(punc)
expect(P, punc) == expect_token(P, "punc", punc)

\* can_insert_semicolon without the test of exigent_mode
can_insert_semicolon_any_mode(P) ==
    P.token.nlb \/ is(P, "eof", null) \/ is(P, "punc", "}")

\* function can_insert_semicolon()
can_insert_semicolon(P) ==
    ~P.exigent_mode
    /\ (P.token.nlb \/ is(P, "eof", null) \/ is(P, "punc", "}"))

\* function semicolon()
semicolon(P) ==
    IF is(P, "punc", ";")
    THEN LET n == Call("next", P, undefined) IN IF n.thrown THEN n ELSE Ret(n.S, undefined)
    ELSE IF ~can_insert_semicolon(P) THEN unexpected(P, NoToken)
    ELSE Ret(P, undefined)

\* function parenthesised()
parenthesised(P) ==
    LET a == Call("expect", P, "(")
    IN  IF a.thrown THEN a
        ELSE LET ex == Call("expression", a.S, [commas |-> TRUE, no_in |-> FALSE])
             IN  IF ex.thrown THEN ex
                 ELSE LET b == Call("expect", ex.S, ")")
                      IN  IF b.thrown THEN b ELSE Ret(b.S, ex.ret)

\* prog1(f, semicolon): the value of f(), then semicolon()
then_semicolon(r) ==
    IF r.thrown THEN r
    ELSE LET s == Call("semicolon", r.S, undefined) IN IF s.thrown THEN s ELSE Ret(s.S, r.ret)

\* prog1(value, next): value is returned after next()
then_next(P, value) ==
    LET n == Call("next", P, undefined) IN IF n.thrown THEN n ELSE Ret(n.S, value)

\* prog1(f, curry(expect, punc)): the value of f(), then expect(punc)
then_expect(r, punc) ==
    IF r.thrown THEN r
    ELSE LET e == Call("expect", r.S, punc) IN IF e.thrown THEN e ELSE Ret(e.S, r.ret)

\* as(tag, f()): the node made of the value that a call returned
as1(tag, r) == IF r.thrown THEN r ELSE Ret(r.S, <<tag, r.ret>>)

\* in_loop(cont) that runs cont() and leaves S.in_loop alone
in_loop_flat(P, cont) == Call(cont, P, undefined)

\* function in_loop(cont): try { ++S.in_loop; return cont(); }
\* finally { --S.in_loop; }
in_loop(P, cont) ==
    LET r == Call(cont, [P EXCEPT !.in_loop = @ + 1], undefined)
    IN  [r EXCEPT !.S.in_loop = @ - 1]

\* case "return": of $statement
return_statement(P) ==
    IF P.in_function = 0
    THEN croak(P, "'return' outside of function", {}, 0, 0, 0)
    ELSE IF is(P, "punc", ";")
         THEN LET n == Call("next", P, undefined)
              IN  IF n.thrown THEN n ELSE Ret(n.S, <<"return", null>>)
    ELSE IF can_insert_semicolon(P) THEN Ret(P, <<"return", null>>)
    ELSE as1("return", then_semicolon(
             Call("expression", P, [commas |-> TRUE, no_in |-> FALSE])))

\* case "do": of $statement
do_statement(P) ==
    LET body == Call("in_loop", P, "statement")
    IN  IF body.thrown THEN body
        ELSE LET w == expect_token(body.S, "keyword", "while")
             IN  IF w.thrown THEN w
                 ELSE LET c == then_semicolon(Call("parenthesised", w.S, undefined))
                      IN  IF c.thrown THEN c
                          ELSE Ret(c.S, <<"do", c.ret, body.ret>>)

\* as(tag, parenthesised(), f()) of case "switch", "while" and "with"
parenthesised_then(P, tag, f, a) ==
    LET c == Call("parenthesised", P, undefined)
    IN  IF c.thrown THEN c
        ELSE LET b == Call(f, c.S, a)
             IN  IF b.thrown THEN b ELSE Ret(b.S, <<tag, c.ret, b.ret>>)

\* case "keyword": of $statement, after prog1(S.token.value, next)
keyword_statement(P, value) ==
    CASE value \in {"break", "continue"} -> Call("break_cont", P, value)
      [] value = "debugger" ->
            LET s == Call("semicolon", P, undefined)
            IN  IF s.thrown THEN s ELSE Ret(s.S, <<"debugger">>)
      [] value = "do" -> do_statement(P)
      [] value = "for" -> Call("for_", P, undefined)
      [] value = "function" -> Call("function_", P, TRUE)
      [] value = "if" -> Call("if_", P, undefined)
      [] value = "return" -> return_statement(P)
      [] value = "switch" -> parenthesised_then(P, "switch", "switch_block_", undefined)
      [] value = "throw" ->
            as1("throw", then_semicolon(
                Call("expression", P, [commas |-> TRUE, no_in |-> FALSE])))
      [] value = "try" -> Call("try_", P, undefined)
      [] value = "var" -> then_semicolon(Call("var_", P, FALSE))
      [] value = "const" -> then_semicolon(Call("const_", P, undefined))
      [] value = "while" -> parenthesised_then(P, "while", "in_loop", "statement")
      [] value = "with" -> parenthesised_then(P, "with", "statement", undefined)
      [] OTHER -> unexpected(P, NoToken)

\* case "name": of $statement
name_statement(P) ==
    LET pk == parse_peek(P)
    IN  IF pk.thrown THEN pk
        ELSE IF is_token(pk.ret, "punc", ":")
             THEN LET label == pk.S.token.value
                      n1 == Call("next", pk.S, undefined)
                  IN  IF n1.thrown THEN n1
                      ELSE LET n2 == Call("next", n1.S, undefined)
                           IN  IF n2.thrown THEN n2
                               ELSE Call("labeled_statement", n2.S, label)
        ELSE Call("simple_statement", pk.S, undefined)

\* case "punc": with an empty list of children in the node of a bare ";"
punc_statement_empty_list(P) ==
    CASE P.token.value = "{" -> as1("block", Call("block_", P, undefined))
      [] P.token.value \in {"[", "("} -> Call("simple_statement", P, undefined)
      [] P.token.value = ";" ->
            LET n == Call("next", P, undefined)
            IN  IF n.thrown THEN n ELSE Ret(n.S, <<"block", <<>>>>)
      [] OTHER -> unexpected(P, NoToken)

\* case "punc": of $statement
punc_statement(P) ==
    CASE P.token.value = "{" -> as1("block", Call("block_", P, undefined))
      [] P.token.value \in {"[", "("} -> Call("simple_statement", P, undefined)
      [] P.token.value = ";" ->
            LET n == Call("next", P, undefined)
            IN  IF n.thrown THEN n ELSE Ret(n.S, <<"block">>)
      [] OTHER -> unexpected(P, NoToken)

\* switch (S.token.type) of $statement; no case for "eof", and the function
\* then returns undefined
statement_switch(P) ==
    CASE P.token.type \in {"num", "string", "regexp", "operator", "atom"} ->
            Call("simple_statement", P, undefined)
      [] P.token.type = "name" -> name_statement(P)
      [] P.token.type = "punc" -> punc_statement(P)
      [] P.token.type = "keyword" ->
            LET n == Call("next", P, undefined)
            IN  IF n.thrown THEN n ELSE keyword_statement(n.S, P.token.value)
      [] OTHER -> Ret(P, undefined)

\* $statement without the step that reads a leading "/" again as a regexp
statement_no_force(P) == statement_switch(P)

\* function $statement(); statement is $statement when embed_tokens is false
statement(P) ==
    IF is(P, "operator", "/")
    THEN LET f == input([P EXCEPT !.peeked = NoToken], TRUE)
         IN  IF f.thrown THEN f
             ELSE statement_switch([f.S EXCEPT !.token = f.ret])
    ELSE statement_switch(P)

\* labeled_statement without the test of exigent_mode
labeled_statement_any(P, label) ==
    LET stat == Call("statement", [P EXCEPT !.labels = Append(@, label)], undefined)
    IN  IF stat.thrown THEN stat
        ELSE Ret([stat.S EXCEPT !.labels = SubSeq(@, 1, Len(@) - 1)],
                 <<"label", label, stat.ret>>)

\* labeled_statement without S.labels.pop()
labeled_statement_no_pop(P, label) ==
    LET start == P.token
        stat == Call("statement", [P EXCEPT !.labels = Append(@, label)], undefined)
    IN  IF stat.thrown THEN stat
        ELSE IF P.exigent_mode /\ stat.ret = undefined
             THEN Throw(stat.S, TypeError("stat is undefined"))
        ELSE IF P.exigent_mode /\ stat.ret[1] \notin STATEMENTS_WITH_LABELS
             THEN unexpected(stat.S, start)
        ELSE Ret(stat.S, <<"label", label, stat.ret>>)

\* function labeled_statement(label)
labeled_statement(P, label) ==
    LET start == P.token
        stat == Call("statement", [P EXCEPT !.labels = Append(@, label)], undefined)
    IN  IF stat.thrown THEN stat
        ELSE IF P.exigent_mode /\ stat.ret = undefined
             THEN Throw(stat.S, TypeError("stat is undefined"))
        ELSE IF P.exigent_mode /\ stat.ret[1] \notin STATEMENTS_WITH_LABELS
             THEN unexpected(stat.S, start)
        ELSE Ret([stat.S EXCEPT !.labels = SubSeq(@, 1, Len(@) - 1)],
                 <<"label", label, stat.ret>>)

\* function simple_statement()
simple_statement(P) ==
    as1("stat", then_semicolon(
        Call("expression", P, [commas |-> TRUE, no_in |-> FALSE])))

\* function member(name, array)
member(name, array) == \E i \in DOMAIN array : array[i] = name

\* function break_cont(type)
break_cont(P, type) ==
    LET name == IF is(P, "name", null) THEN P.token.value ELSE null
        r == IF name # null
             THEN LET n == Call("next", P, undefined)
                  IN  IF n.thrown THEN n
                      ELSE IF ~member(name, n.S.labels)
                           THEN croak(n.S, "Label " \o name
                                     \o " without matching loop or statement",
                                     {}, 0, 0, 0)
                      ELSE Ret(n.S, undefined)
             ELSE IF P.in_loop = 0
                  THEN croak(P, type \o " not inside a loop or switch", {}, 0, 0, 0)
             ELSE Ret(P, undefined)
    IN  IF r.thrown THEN r
        ELSE LET s == Call("semicolon", r.S, undefined)
             IN  IF s.thrown THEN s ELSE Ret(s.S, <<type, name>>)

\* is("punc", punc) ? null : expression()
expression_unless(P, punc) ==
    IF is(P, "punc", punc) THEN Ret(P, null)
    ELSE Call("expression", P, [commas |-> TRUE, no_in |-> FALSE])

\* function regular_for(init)
regular_for(P, init) ==
    LET a == Call("expect", P, ";")
    IN  IF a.thrown THEN a
        ELSE LET test == then_expect(expression_unless(a.S, ";"), ";")
             IN  IF test.thrown THEN test
                 ELSE LET step == then_expect(expression_unless(test.S, ")"), ")")
                      IN  IF step.thrown THEN step
                          ELSE LET body == Call("in_loop", step.S, "statement")
                               IN  IF body.thrown THEN body
                                   ELSE Ret(body.S, <<"for", init, test.ret,
                                                      step.ret, body.ret>>)

\* function for_in(init)
for_in(P, init) ==
    LET lhs == IF init[1] = "var" THEN <<"name", init[2][1]>> ELSE init
        n == Call("next", P, undefined)
    IN  IF n.thrown THEN n
        ELSE LET obj == then_expect(
                     Call("expression", n.S, [commas |-> TRUE, no_in |-> FALSE]),
                     ")")
             IN  IF obj.thrown THEN obj
                 ELSE LET body == Call("in_loop", obj.S, "statement")
                      IN  IF body.thrown THEN body
                          ELSE Ret(body.S,
                                   <<"for-in", init, lhs, obj.ret, body.ret>>)

\* function for_()
for_(P) ==
    LET a == Call("expect", P, "(")
    IN  IF a.thrown THEN a
        ELSE IF is(a.S, "punc", ";") THEN Call("regular_for", a.S, null)
        ELSE LET init ==
                     IF is(a.S, "keyword", "var")
                     THEN LET n == Call("next", a.S, undefined)
                          IN  IF n.thrown THEN n ELSE Call("var_", n.S, TRUE)
                     ELSE Call("expression", a.S, [commas |-> TRUE, no_in |-> TRUE])
             IN  IF init.thrown THEN init
                 ELSE IF is(init.S, "operator", "in")
                      THEN Call("for_in", init.S, init.ret)
                 ELSE Call("regular_for", init.S, init.ret)

\* The function that reads the arguments in $function_
RECURSIVE function_arguments(_, _, _)
function_arguments(P, first, a) ==
    IF is(P, "punc", ")") THEN then_next(P, a)
    ELSE LET c == IF first THEN Ret(P, undefined) ELSE Call("expect", P, ",")
         IN  IF c.thrown THEN c
             ELSE IF ~is(c.S, "name", null) THEN unexpected(c.S, NoToken)
             ELSE LET n == Call("next", c.S, undefined)
                  IN  IF n.thrown THEN n
                      ELSE function_arguments(n.S, FALSE,
                                              Append(a, c.S.token.value))

\* The function that reads the body in $function_, with in_function left
\* as it is found after the body
function_body_keeps(P) ==
    LET loop == P.in_loop
        a == Call("block_", [P EXCEPT !.in_function = @ + 1, !.in_loop = 0],
                  undefined)
    IN  IF a.thrown THEN a
        ELSE Ret([a.S EXCEPT !.in_loop = loop], a.ret)

\* The function that reads the body, without S.in_loop = 0
function_body_in_loop(P) ==
    LET loop == P.in_loop
        a == Call("block_", [P EXCEPT !.in_function = @ + 1], undefined)
    IN  IF a.thrown THEN a
        ELSE Ret([a.S EXCEPT !.in_function = @ - 1, !.in_loop = loop], a.ret)

\* The function that reads the body in $function_
function_body(P) ==
    LET loop == P.in_loop
        a == Call("block_", [P EXCEPT !.in_function = @ + 1, !.in_loop = 0],
                  undefined)
    IN  IF a.thrown THEN a
        ELSE Ret([a.S EXCEPT !.in_function = @ - 1, !.in_loop = loop], a.ret)

\* function $function_(in_statement); function_ is $function_ when
\* embed_tokens is false
function_(P, in_statement) ==
    LET name == IF is(P, "name", null) THEN then_next(P, P.token.value)
                ELSE Ret(P, null)
    IN  IF name.thrown THEN name
        ELSE IF in_statement /\ name.ret = null THEN unexpected(name.S, NoToken)
        ELSE LET e == Call("expect", name.S, "(")
             IN  IF e.thrown THEN e
                 ELSE LET args == function_arguments(e.S, TRUE, <<>>)
                      IN  IF args.thrown THEN args
                          ELSE LET body == function_body(args.S)
                               IN  IF body.thrown THEN body
                                   ELSE Ret(body.S,
                                            <<IF in_statement THEN "defun"
                                              ELSE "function",
                                              name.ret, args.ret, body.ret>>)

\* function if_()
if_(P) ==
    LET cond == Call("parenthesised", P, undefined)
    IN  IF cond.thrown THEN cond
        ELSE LET body == Call("statement", cond.S, undefined)
             IN  IF body.thrown THEN body
                 ELSE IF is(body.S, "keyword", "else")
                      THEN LET n == Call("next", body.S, undefined)
                           IN  IF n.thrown THEN n
                               ELSE LET belse == Call("statement", n.S, undefined)
                                    IN  IF belse.thrown THEN belse
                                        ELSE Ret(belse.S, <<"if", cond.ret,
                                                            body.ret, belse.ret>>)
                 ELSE Ret(body.S, <<"if", cond.ret, body.ret, undefined>>)

\* while (!is("punc", "}")) of block_
RECURSIVE block_loop(_, _)
block_loop(P, a) ==
    IF is(P, "punc", "}") THEN then_next(P, a)
    ELSE IF is(P, "eof", null) THEN unexpected(P, NoToken)
    ELSE LET s == Call("statement", P, undefined)
         IN  IF s.thrown THEN s ELSE block_loop(s.S, Append(a, s.ret))

\* function block_()
block_(P) ==
    LET e == Call("expect", P, "{")
    IN  IF e.thrown THEN e ELSE block_loop(e.S, <<>>)

RECURSIVE switch_block_loop(_, _)

\* The loop of switch_block_ with cur left at the array of the first case
switch_block_loop_first_cur(P, a) ==
    IF is(P, "punc", "}") THEN then_next(P, a)
    ELSE IF is(P, "eof", null) THEN unexpected(P, NoToken)
    ELSE IF is(P, "keyword", "case")
         THEN LET n == Call("next", P, undefined)
              IN  IF n.thrown THEN n
                  ELSE LET e == then_expect(
                               Call("expression", n.S,
                                    [commas |-> TRUE, no_in |-> FALSE]), ":")
                       IN  IF e.thrown THEN e
                           ELSE switch_block_loop(e.S, Append(a, <<e.ret, <<>>>>))
    ELSE IF is(P, "keyword", "default")
         THEN LET n == Call("next", P, undefined)
              IN  IF n.thrown THEN n
                  ELSE LET e == Call("expect", n.S, ":")
                       IN  IF e.thrown THEN e
                           ELSE switch_block_loop(e.S, Append(a, <<null, <<>>>>))
    ELSE IF a = <<>> THEN unexpected(P, NoToken)
    ELSE LET s == Call("statement", P, undefined)
         IN  IF s.thrown THEN s
             ELSE switch_block_loop(s.S,
                      [a EXCEPT ![1] = <<@[1], Append(@[2], s.ret)>>])

\* while (!is("punc", "}")) of switch_block_; cur is the array of the last
\* pair pushed on a, and null while a is empty
switch_block_loop(P, a) ==
    IF is(P, "punc", "}") THEN then_next(P, a)
    ELSE IF is(P, "eof", null) THEN unexpected(P, NoToken)
    ELSE IF is(P, "keyword", "case")
         THEN LET n == Call("next", P, undefined)
              IN  IF n.thrown THEN n
                  ELSE LET e == then_expect(
                               Call("expression", n.S,
                                    [commas |-> TRUE, no_in |-> FALSE]), ":")
                       IN  IF e.thrown THEN e
                           ELSE switch_block_loop(e.S, Append(a, <<e.ret, <<>>>>))
    ELSE IF is(P, "keyword", "default")
         THEN LET n == Call("next", P, undefined)
              IN  IF n.thrown THEN n
                  ELSE LET e == Call("expect", n.S, ":")
                       IN  IF e.thrown THEN e
                           ELSE switch_block_loop(e.S, Append(a, <<null, <<>>>>))
    ELSE IF a = <<>> THEN unexpected(P, NoToken)
    ELSE LET s == Call("statement", P, undefined)
         IN  IF s.thrown THEN s
             ELSE switch_block_loop(s.S,
                      [a EXCEPT ![Len(a)] = <<@[1], Append(@[2], s.ret)>>])

\* The function that switch_block_ runs inside in_loop
switch_block_body(P) ==
    LET e == Call("expect", P, "{")
    IN  IF e.thrown THEN e ELSE switch_block_loop(e.S, <<>>)

\* var switch_block_ = curry(in_loop, function(){...})
switch_block_(P) == Call("in_loop", P, "switch_block_body")

\* if (is("keyword", "catch")) {...} of try_
try_catch(P) ==
    IF ~is(P, "keyword", "catch") THEN Ret(P, undefined)
    ELSE LET n == Call("next", P, undefined)
         IN  IF n.thrown THEN n
             ELSE LET e == Call("expect", n.S, "(")
                  IN  IF e.thrown THEN e
                      ELSE IF ~is(e.S, "name", null)
                           THEN croak(e.S, "Name expected", {}, 0, 0, 0)
                      ELSE LET name == then_expect(
                                   then_next(e.S, e.S.token.value), ")")
                           IN  IF name.thrown THEN name
                               ELSE LET b == Call("block_", name.S, undefined)
                                    IN  IF b.thrown THEN b
                                        ELSE Ret(b.S, <<name.ret, b.ret>>)

\* if (is("keyword", "finally")) {...} of try_
try_finally(P) ==
    IF ~is(P, "keyword", "finally") THEN Ret(P, undefined)
    ELSE LET n == Call("next", P, undefined)
         IN  IF n.thrown THEN n ELSE Call("block_", n.S, undefined)

\* function try_()
try_(P) ==
    LET body == Call("block_", P, undefined)
    IN  IF body.thrown THEN body
        ELSE LET bcatch == Call("try_catch", body.S, undefined)
             IN  IF bcatch.thrown THEN bcatch
                 ELSE LET bfinally == Call("try_finally", bcatch.S, undefined)
                      IN  IF bfinally.thrown THEN bfinally
                          ELSE IF bcatch.ret = undefined /\ bfinally.ret = undefined
                               THEN croak(bfinally.S,
                                          "Missing catch/finally blocks",
                                          {}, 0, 0, 0)
                          ELSE Ret(bfinally.S, <<"try", body.ret, bcatch.ret,
                                                 bfinally.ret>>)

\* for (;;) of vardefs
RECURSIVE vardefs_loop(_, _, _)
vardefs_loop(P, no_in, a) ==
    IF ~is(P, "name", null) THEN unexpected(P, NoToken)
    ELSE LET name == P.token.value
             n == Call("next", P, undefined)
             d == IF n.thrown THEN n
                  ELSE IF is(n.S, "operator", "=")
                       THEN LET m == Call("next", n.S, undefined)
                            IN  IF m.thrown THEN m
                                ELSE LET e == Call("expression", m.S,
                                                   [commas |-> FALSE,
                                                    no_in |-> no_in])
                                     IN  IF e.thrown THEN e
                                         ELSE Ret(e.S, <<name, e.ret>>)
                  ELSE Ret(n.S, <<name>>)
         IN  IF d.thrown THEN d
             ELSE IF ~is(d.S, "punc", ",") THEN Ret(d.S, Append(a, d.ret))
             ELSE LET c == Call("next", d.S, undefined)
                  IN  IF c.thrown THEN c
                      ELSE vardefs_loop(c.S, no_in, Append(a, d.ret))

\* function vardefs(no_in)
vardefs(P, no_in) == vardefs_loop(P, no_in, <<>>)

\* function var_(no_in)
var_(P, no_in) == as1("var", Call("vardefs", P, no_in))

\* function const_()
const_(P) == as1("const", Call("vardefs", P, FALSE))

\* function as_name()
as_name(P) ==
    IF P.token.type \in {"name", "operator", "keyword", "atom"}
    THEN then_next(P, P.token.value)
    ELSE unexpected(P, NoToken)

\* function as_property_name()
as_property_name(P) ==
    IF P.token.type \in {"num", "string"} THEN then_next(P, P.token.value)
    ELSE as_name(P)

\* expr_list whose loop takes a comma for a hole whatever allow_empty says
expr_list_body_any_hole(P, x, first, a) ==
    LET c == IF first THEN Ret(P, undefined) ELSE Call("expect", P, ",")
    IN  IF c.thrown THEN c
        ELSE IF x.allow_trailing_comma /\ is(c.S, "punc", x.closing)
             THEN Ret(c.S, [break |-> TRUE, a |-> a])
        ELSE IF is(c.S, "punc", ",")
             THEN Ret(c.S, [break |-> FALSE,
                            a |-> Append(a, <<"atom", "undefined">>)])
        ELSE LET e == Call("expression", c.S,
                           [commas |-> FALSE, no_in |-> FALSE])
             IN  IF e.thrown THEN e
                 ELSE Ret(e.S, [break |-> FALSE, a |-> Append(a, e.ret)])

\* The body of the loop of expr_list, from if (first) to a.push(...): S and
\* a after it, and whether it left the loop by break
expr_list_body(P, x, first, a) ==
    LET c == IF first THEN Ret(P, undefined) ELSE Call("expect", P, ",")
    IN  IF c.thrown THEN c
        ELSE IF x.allow_trailing_comma /\ is(c.S, "punc", x.closing)
             THEN Ret(c.S, [break |-> TRUE, a |-> a])
        ELSE IF is(c.S, "punc", ",") /\ x.allow_empty
             THEN Ret(c.S, [break |-> FALSE,
                            a |-> Append(a, <<"atom", "undefined">>)])
        ELSE LET e == Call("expression", c.S,
                           [commas |-> FALSE, no_in |-> FALSE])
             IN  IF e.thrown THEN e
                 ELSE Ret(e.S, [break |-> FALSE, a |-> Append(a, e.ret)])

\* while (!is("punc", closing)) of expr_list
RECURSIVE expr_list_loop(_, _, _, _)
expr_list_loop(P, x, first, a) ==
    IF is(P, "punc", x.closing) THEN then_next(P, a)
    ELSE LET b == expr_list_body(P, x, first, a)
         IN  IF b.thrown THEN b
             ELSE IF b.ret.break THEN then_next(b.S, b.ret.a)
             ELSE expr_list_loop(b.S, x, FALSE, b.ret.a)

\* function expr_list(closing, allow_trailing_comma, allow_empty)
expr_list(P, x) == expr_list_loop(P, x, TRUE, <<>>)

\* array_ that allows a trailing comma in both modes
array_trailing_comma(P) ==
    as1("array", Call("expr_list", P,
                      [closing |-> "]",
                       allow_trailing_comma |-> TRUE,
                       allow_empty |-> TRUE]))

\* function array_()
array_(P) ==
    as1("array", Call("expr_list", P,
                      [closing |-> "]",
                       allow_trailing_comma |-> ~P.exigent_mode,
                       allow_empty |-> TRUE]))

\* One property of object_, from var type = S.token.type to a.push(...)
object_property(P) ==
    LET type == P.token.type
        name == as_property_name(P)
    IN  IF name.thrown THEN name
        ELSE IF type = "name" /\ name.ret \in {"get", "set"}
                /\ ~is(name.S, "punc", ":")
             THEN LET n == as_name(name.S)
                  IN  IF n.thrown THEN n
                      ELSE LET f == Call("function_", n.S, FALSE)
                           IN  IF f.thrown THEN f
                               ELSE Ret(f.S, <<n.ret, f.ret, name.ret>>)
        ELSE LET e == Call("expect", name.S, ":")
             IN  IF e.thrown THEN e
                 ELSE LET v == Call("expression", e.S,
                                    [commas |-> FALSE, no_in |-> FALSE])
                      IN  IF v.thrown THEN v ELSE Ret(v.S, <<name.ret, v.ret>>)

\* while (!is("punc", "}")) of object_
RECURSIVE object_loop(_, _, _)
object_loop(P, first, a) ==
    IF is(P, "punc", "}") THEN then_next(P, <<"object", a>>)
    ELSE LET c == IF first THEN Ret(P, undefined) ELSE Call("expect", P, ",")
         IN  IF c.thrown THEN c
             ELSE IF ~c.S.exigent_mode /\ is(c.S, "punc", "}")
                  THEN then_next(c.S, <<"object", a>>)
             ELSE LET p == Call("object_property", c.S, undefined)
                  IN  IF p.thrown THEN p
                      ELSE object_loop(p.S, FALSE, Append(a, p.ret))

\* function object_()
object_(P) == object_loop(P, TRUE, <<>>)

\* function is_assignable(expr) that does not look at exigent_mode
is_assignable_always(P, expr) ==
    CASE expr[1] \in {"dot", "sub", "new", "call"} -> TRUE
      [] expr[1] = "name" -> expr[2] # "this"
      [] OTHER -> FALSE

\* is_assignable without case "call"
is_assignable_no_call(P, expr) ==
    IF ~P.exigent_mode THEN TRUE
    ELSE CASE expr[1] \in {"dot", "sub", "new"} -> TRUE
           [] expr[1] = "name" -> expr[2] # "this"
           [] OTHER -> FALSE

\* function is_assignable(expr); the switch returns undefined for any other
\* tag
is_assignable(P, expr) ==
    IF ~P.exigent_mode THEN TRUE
    ELSE CASE expr[1] \in {"dot", "sub", "new", "call"} -> TRUE
           [] expr[1] = "name" -> expr[2] # "this"
           [] OTHER -> FALSE

\* make_unary that passes the operator to as() where the tag belongs
make_unary_op_first(P, tag, op, expr) ==
    IF op \in {"++", "--"} /\ ~is_assignable(P, expr)
    THEN croak(P, "Invalid use of " \o op \o " operator", {}, 0, 0, 0)
    ELSE Ret(P, <<op, tag, expr>>)

\* function make_unary(tag, op, expr)
make_unary(P, tag, op, expr) ==
    IF op \in {"++", "--"} /\ ~is_assignable(P, expr)
    THEN croak(P, "Invalid use of " \o op \o " operator", {}, 0, 0, 0)
    ELSE Ret(P, <<tag, op, expr>>)

\* function subscripts(expr, allow_calls)
subscripts(P, expr, allow_calls) ==
    IF is(P, "punc", ".")
    THEN LET n == Call("next", P, undefined)
         IN  IF n.thrown THEN n
             ELSE LET name == as_name(n.S)
                  IN  IF name.thrown THEN name
                      ELSE Call("subscripts", name.S,
                                [expr |-> <<"dot", expr, name.ret>>,
                                 allow_calls |-> allow_calls])
    ELSE IF is(P, "punc", "[")
    THEN LET n == Call("next", P, undefined)
         IN  IF n.thrown THEN n
             ELSE LET e == then_expect(
                          Call("expression", n.S,
                               [commas |-> TRUE, no_in |-> FALSE]), "]")
                  IN  IF e.thrown THEN e
                      ELSE Call("subscripts", e.S,
                                [expr |-> <<"sub", expr, e.ret>>,
                                 allow_calls |-> allow_calls])
    ELSE IF allow_calls /\ is(P, "punc", "(")
    THEN LET n == Call("next", P, undefined)
         IN  IF n.thrown THEN n
             ELSE LET l == Call("expr_list", n.S,
                                [closing |-> ")",
                                 allow_trailing_comma |-> FALSE,
                                 allow_empty |-> FALSE])
                  IN  IF l.thrown THEN l
                      ELSE Call("subscripts", l.S,
                                [expr |-> <<"call", expr, l.ret>>,
                                 allow_calls |-> TRUE])
    ELSE IF allow_calls /\ is(P, "operator", null)
            /\ P.token.value \in UNARY_POSTFIX
    THEN LET u == make_unary(P, "unary-postfix", P.token.value, expr)
         IN  IF u.thrown THEN u ELSE then_next(u.S, u.ret)
    ELSE Ret(P, expr)

\* function new_()
new_(P) ==
    LET newexp == Call("expr_atom", P, FALSE)
    IN  IF newexp.thrown THEN newexp
        ELSE LET args ==
                     IF is(newexp.S, "punc", "(")
                     THEN LET n == Call("next", newexp.S, undefined)
                          IN  IF n.thrown THEN n
                              ELSE Call("expr_list", n.S,
                                        [closing |-> ")",
                                         allow_trailing_comma |-> FALSE,
                                         allow_empty |-> FALSE])
                     ELSE Ret(newexp.S, <<>>)
             IN  IF args.thrown THEN args
                 ELSE Call("subscripts", args.S,
                           [expr |-> <<"new", newexp.ret, args.ret>>,
                            allow_calls |-> TRUE])

\* f() and then subscripts(value, allow_calls)
then_subscripts(r, allow_calls) ==
    IF r.thrown THEN r
    ELSE Call("subscripts", r.S, [expr |-> r.ret, allow_calls |-> allow_calls])

\* if (is("punc")) {...} of expr_atom
expr_atom_punc(P, allow_calls) ==
    LET n == Call("next", P, undefined)
    IN  IF P.token.value \notin {"(", "[", "{"} THEN unexpected(P, NoToken)
        ELSE IF n.thrown THEN n
        ELSE CASE P.token.value = "(" ->
                    then_subscripts(
                        then_expect(Call("expression", n.S,
                                         [commas |-> TRUE, no_in |-> FALSE]),
                                    ")"),
                        allow_calls)
               [] P.token.value = "[" ->
                    then_subscripts(Call("array_", n.S, undefined), allow_calls)
               [] P.token.value = "{" ->
                    then_subscripts(Call("object_", n.S, undefined), allow_calls)

\* The node of an atomic token in expr_atom
atom_node(tkn) ==
    IF tkn.type = "regexp"
    THEN <<"regexp", tkn.value[1], tkn.value[2]>>
    ELSE <<tkn.type, tkn.value>>

\* function expr_atom(allow_calls)
expr_atom(P, allow_calls) ==
    IF is(P, "operator", "new")
    THEN LET n == Call("next", P, undefined)
         IN  IF n.thrown THEN n ELSE Call("new_", n.S, undefined)
    ELSE IF is(P, "operator", null) /\ P.token.value \in UNARY_PREFIX
    THEN LET n == Call("next", P, undefined)
         IN  IF n.thrown THEN n
             ELSE LET e == Call("expr_atom", n.S, allow_calls)
                  IN  IF e.thrown THEN e
                      ELSE make_unary(e.S, "unary-prefix", P.token.value, e.ret)
    ELSE IF is(P, "punc", null) THEN expr_atom_punc(P, allow_calls)
    ELSE IF is(P, "keyword", "function")
    THEN LET n == Call("next", P, undefined)
         IN  IF n.thrown THEN n
             ELSE then_subscripts(Call("function_", n.S, FALSE), allow_calls)
    ELSE IF P.token.type \in ATOMIC_START_TOKEN
    THEN then_subscripts(then_next(P, atom_node(P.token)), allow_calls)
    ELSE unexpected(P, NoToken)

\* expr_op that goes on with an operator of the same precedence too
expr_op_same_prec(P, left, min_prec, no_in) ==
    LET op0 == IF is(P, "operator", null) THEN P.token.value ELSE null
        op == IF op0 = "in" /\ no_in THEN null ELSE op0
    IN  IF op \in DOMAIN PRECEDENCE /\ PRECEDENCE[op] >= min_prec
        THEN LET n == Call("next", P, undefined)
             IN  IF n.thrown THEN n
                 ELSE LET a == Call("expr_atom", n.S, TRUE)
                      IN  IF a.thrown THEN a
                          ELSE LET right == Call("expr_op", a.S,
                                                 [left |-> a.ret,
                                                  min_prec |-> PRECEDENCE[op],
                                                  no_in |-> no_in])
                               IN  IF right.thrown THEN right
                                   ELSE Call("expr_op", right.S,
                                             [left |-> <<"binary", op, left,
                                                         right.ret>>,
                                              min_prec |-> min_prec,
                                              no_in |-> no_in])
        ELSE Ret(P, left)

\* function expr_op(left, min_prec, no_in)
expr_op(P, left, min_prec, no_in) ==
    LET op0 == IF is(P, "operator", null) THEN P.token.value ELSE null
        op == IF op0 = "in" /\ no_in THEN null ELSE op0
    IN  IF op \in DOMAIN PRECEDENCE /\ PRECEDENCE[op] > min_prec
        THEN LET n == Call("next", P, undefined)
             IN  IF n.thrown THEN n
                 ELSE LET a == Call("expr_atom", n.S, TRUE)
                      IN  IF a.thrown THEN a
                          ELSE LET right == Call("expr_op", a.S,
                                                 [left |-> a.ret,
                                                  min_prec |-> PRECEDENCE[op],
                                                  no_in |-> no_in])
                               IN  IF right.thrown THEN right
                                   ELSE Call("expr_op", right.S,
                                             [left |-> <<"binary", op, left,
                                                         right.ret>>,
                                              min_prec |-> min_prec,
                                              no_in |-> no_in])
        ELSE Ret(P, left)

\* function expr_ops(no_in)
expr_ops(P, no_in) ==
    LET a == Call("expr_atom", P, TRUE)
    IN  IF a.thrown THEN a
        ELSE Call("expr_op", a.S,
                  [left |-> a.ret, min_prec |-> 0, no_in |-> no_in])

\* function maybe_conditional(no_in)
maybe_conditional(P, no_in) ==
    LET expr == Call("expr_ops", P, no_in)
    IN  IF expr.thrown THEN expr
        ELSE IF is(expr.S, "operator", "?")
        THEN LET n == Call("next", expr.S, undefined)
             IN  IF n.thrown THEN n
                 ELSE LET yes == then_expect(
                                  Call("expression", n.S,
                                       [commas |-> FALSE, no_in |-> FALSE]),
                                  ":")
                      IN  IF yes.thrown THEN yes
                          ELSE LET no == Call("expression", yes.S,
                                              [commas |-> FALSE,
                                               no_in |-> no_in])
                               IN  IF no.thrown THEN no
                                   ELSE Ret(no.S, <<"conditional", expr.ret,
                                                    yes.ret, no.ret>>)
        ELSE expr

\* function maybe_assign(no_in)
maybe_assign(P, no_in) ==
    LET left == Call("maybe_conditional", P, no_in)
    IN  IF left.thrown THEN left
        ELSE LET val == left.S.token.value
             IN  IF is(left.S, "operator", null) /\ val \in DOMAIN ASSIGNMENT
                 THEN IF is_assignable(left.S, left.ret)
                      THEN LET n == Call("next", left.S, undefined)
                           IN  IF n.thrown THEN n
                               ELSE LET r == Call("maybe_assign", n.S, no_in)
                                    IN  IF r.thrown THEN r
                                        ELSE Ret(r.S, <<"assign", ASSIGNMENT[val],
                                                        left.ret, r.ret>>)
                      ELSE croak(left.S, "Invalid assignment", {}, 0, 0, 0)
                 ELSE left

\* function expression(commas, no_in); expression() is expression(true)
expression(P, commas, no_in) ==
    LET expr == Call("maybe_assign", P, no_in)
    IN  IF expr.thrown THEN expr
        ELSE IF commas /\ is(expr.S, "punc", ",")
        THEN LET n == Call("next", expr.S, undefined)
             IN  IF n.thrown THEN n
                 ELSE LET r == Call("expression", n.S,
                                    [commas |-> TRUE, no_in |-> no_in])
                      IN  IF r.thrown THEN r
                          ELSE Ret(r.S, <<"seq", expr.ret, r.ret>>)
        ELSE expr

(***************************************************************************)
(* The functions by name.                                                  *)
(***************************************************************************)
Call(f, S, a) ==
    CASE f = "next_token" -> next_token(S, a)
      [] f = "read_num" -> read_num(S, a)
      [] f = "read_string" -> read_string(S)
      [] f = "read_escaped_char" -> read_escaped_char(S)
      [] f = "read_line_comment" -> read_line_comment(S)
      [] f = "read_multiline_comment" -> read_multiline_comment(S)
      [] f = "read_name" -> read_name(S)
      [] f = "read_regexp" -> read_regexp(S)
      [] f = "read_operator" -> read_operator(S, a)
      [] f = "handle_dot" -> handle_dot(S)
      [] f = "handle_slash" -> handle_slash(S)
      [] f = "read_word" -> read_word(S)
      [] f = "next" -> parse_next(S)
      [] f = "expect" -> expect(S, a)
      [] f = "semicolon" -> semicolon(S)
      [] f = "parenthesised" -> parenthesised(S)
      [] f = "statement" -> statement(S)
      [] f = "in_loop" -> in_loop(S, a)
      [] f = "labeled_statement" -> labeled_statement(S, a)
      [] f = "simple_statement" -> simple_statement(S)
      [] f = "break_cont" -> break_cont(S, a)
      [] f = "for_" -> for_(S)
      [] f = "regular_for" -> regular_for(S, a)
      [] f = "for_in" -> for_in(S, a)
      [] f = "function_" -> function_(S, a)
      [] f = "if_" -> if_(S)
      [] f = "block_" -> block_(S)
      [] f = "switch_block_" -> switch_block_(S)
      [] f = "switch_block_body" -> switch_block_body(S)
      [] f = "try_catch" -> try_catch(S)
      [] f = "try_finally" -> try_finally(S)
      [] f = "try_" -> try_(S)
      [] f = "vardefs" -> vardefs(S, a)
      [] f = "var_" -> var_(S, a)
      [] f = "const_" -> const_(S)
      [] f = "new_" -> new_(S)
      [] f = "expr_atom" -> expr_atom(S, a)
      [] f = "expr_list" -> expr_list(S, a)
      [] f = "array_" -> array_(S)
      [] f = "object_property" -> object_property(S)
      [] f = "object_" -> object_(S)
      [] f = "subscripts" -> subscripts(S, a.expr, a.allow_calls)
      [] f = "expr_op" -> expr_op(S, a.left, a.min_prec, a.no_in)
      [] f = "expr_ops" -> expr_ops(S, a)
      [] f = "maybe_conditional" -> maybe_conditional(S, a)
      [] f = "maybe_assign" -> maybe_assign(S, a)
      [] f = "expression" -> expression(S, a.commas, a.no_in)

(***************************************************************************)
(* The tokenizer as a state machine: a text is given to tokenizer(), and   *)
(* the function it returns is called again and again, the way parse()      *)
(* calls S.input.                                                          *)
(***************************************************************************)
MaxLen == 4

Alphabet == {"a", "1", "\n", " ", "/", "*", "'", "\\", "u", ";"}

SampleTexts ==
    {<<"a", "\n", "/", "*", "*", "/", "a">>,
     <<"/", "*", "\n", "*", "/", "a">>,
     <<"/", "*", "*", "/", " ", "a">>,
     <<"a", " ", "/", "/", "a", "\n", "a">>,
     <<"'", "a", "\n", "a", "'", " ", "a">>,
     <<"a", "\n", " ", "/", "a", "/", "u">>,
     <<"a", "\\", "u", "0", "0", "6", "1", ";">>,
     <<"a", "\\", "u", "0", "0", "6">>,
     <<"/", "*", "*", "/", "'", "a">>,
     <<"\r", "\n", "a", "\r", "a">>,
     <<"t", "r", "u", "e">>,
     <<"n", "u", "l", "l">>,
     <<"f", "a", "l", "s", "e">>,
     <<"i", "n">>,
     <<"n", "e", "w">>,
     <<"v", "o", "i", "d">>,
     <<"v", "a", "r">>,
     <<"d", "o", " ", "/", "a", "/">>,
     <<"i", "f">>,
     <<"t", "y", "p", "e", "o", "f">>,
     <<"r", "e", "t", "u", "r", "n", "/", "a", "/">>,
     <<"a", "+", "+", "/", "a", "/">>,
     <<"a", ")", "/", "a", "/">>,
     <<"a", "]", "/", "a", "/">>,
     <<"}", "/", "a", "/">>,
     <<"a", " ", "/", "*", "*", "/", " ", "/", "a", "/">>,
     <<";", " ", "/", "*", "*", "/", " ", "/", "a", "/">>,
     <<";", "/", "/", "\n", "/", "a", "/">>,
     <<"a", ".", "a", "/", "a">>,
     <<"d", "o", "/", "*", "*", "/", " ", "/", "a", "/">>}

Texts == UNION {[1..n -> Alphabet] : n \in 0..MaxLen} \cup SampleTexts

\* No program: the tokenizer is used on its own
NoProgram == [wraps |-> <<>>, leaf |-> "none", after |-> "none"]

\* No pair: one tokenizer, or one parse, is used on its own
NoPair == <<>>

\* Nobody has called next_token.context.  The only scanner record that the
\* file makes is the object of var S = {...} in tokenizer(); the variable T
\* is the content of that object, and "S" the reference to it.
NoSnap ==
    [S |-> "S", s |-> undefined, taken |-> tokenizer(<<>>), first |-> <<>>,
     again |-> <<>>, phase |-> "new"]

Init ==
    /\ \E text \in Texts : T = tokenizer(text)
    /\ tok = NoToken
    /\ ptok = NoToken
    /\ before = T
    /\ err = NoEx
    /\ mode = "new"
    /\ parser = parse_S(<<>>, FALSE)
    /\ ast = <<>>
    /\ prog = NoProgram
    /\ pair = NoPair
    /\ snap = NoSnap

\* What the caller sees of one call of the tokenizer
Input(force_regexp) ==
    \E r \in {Call("next_token", T, force_regexp)} :
        /\ T' = r.S
        /\ tok' = IF Ok(r) THEN r.ret ELSE NoToken
        /\ ptok' = tok
        /\ before' = T
        /\ err' = r.ex

\* S.input() of the parser's next() and peek()
NextToken ==
    /\ err.kind = "none"
    /\ Input(FALSE)
    /\ mode' = "plain"
    /\ UNCHANGED <<parser, ast, prog, pair, snap>>

\* A "/" operator token that can stand where a statement starts: the first
\* token of the text, or the one after a ")" or after the keyword do.
StatementLeadingSlash ==
    /\ mode = "plain"
    /\ tok.type = "operator" /\ tok.value = "/"
    /\ \/ ptok.type = "none"
       \/ ptok.type = "punc" /\ ptok.value = ")"
       \/ ptok.type = "keyword" /\ ptok.value = "do"

\* S.token = S.input(true) of $statement
ForceRegexp ==
    /\ err.kind = "none"
    /\ StatementLeadingSlash
    /\ Input(TRUE)
    /\ mode' = "force"
    /\ UNCHANGED <<parser, ast, prog, pair, snap>>

Next == NextToken \/ ForceRegexp

Spec == Init /\ [][Next]_vars

(***************************************************************************)
(* parse() as a state machine: a program text and exigent_mode are given,  *)
(* S.token = next() is run, then the loop of the top level runs statement  *)
(* once per step until the token is eof, and parse returns.                *)
(*                                                                         *)
(* The texts are programs built from a statement (the leaf) put inside a   *)
(* list of enclosing statements, outermost first, and followed by one more *)
(* statement at the top level.  An enclosing block has two statements     *)
(* before its body, a function and a labeled loop, both closed:            *)
(* {function g(){}L:while(b); ... }.                                       *)
(***************************************************************************)
MaxDepth == 2

Wrappers ==
    {"function", "while", "do", "for", "for-in", "switch", "label", "block"}

Leaves ==
    {"return", "break", "continue", "break L", "continue L", "break M",
     "name", "assign"}

Afters == {"none", "return", "break", "break L"}

\* The text of an enclosing statement up to its body
Open(w) ==
    CASE w = "function" ->
            <<"f", "u", "n", "c", "t", "i", "o", "n", " ", "f", "(", ")",
            "{">>
      [] w = "while" ->
            <<"w", "h", "i", "l", "e", "(", "a", ")">>
      [] w = "do" ->
            <<"d", "o", " ">>
      [] w = "for" ->
            <<"f", "o", "r", "(", ";", ";", ")">>
      [] w = "for-in" ->
            <<"f", "o", "r", "(", "a", " ", "i", "n", " ", "b", ")">>
      [] w = "switch" ->
            <<"s", "w", "i", "t", "c", "h", "(", "a", ")", "{", "c", "a", "s",
            "e", " ", "1", ":">>
      [] w = "label" ->
            <<"L", ":">>
      [] w = "block" ->
            <<"{", "f", "u", "n", "c", "t", "i", "o", "n", " ", "g", "(",
            ")", "{", "}", "L", ":", "w", "h", "i", "l", "e", "(", "b", ")",
            ";">>

\* The text of an enclosing statement after its body
Close(w) ==
    CASE w = "function" ->
            <<"}">>
      [] w = "while" ->
            <<>>
      [] w = "do" ->
            <<" ", "w", "h", "i", "l", "e", "(", "a", ")", ";">>
      [] w = "for" ->
            <<>>
      [] w = "for-in" ->
            <<>>
      [] w = "switch" ->
            <<"}">>
      [] w = "label" ->
            <<>>
      [] w = "block" ->
            <<"}">>

\* The text of a statement that encloses nothing
LeafText(l) ==
    CASE l = "return" ->
            <<"r", "e", "t", "u", "r", "n", ";">>
      [] l = "break" ->
            <<"b", "r", "e", "a", "k", ";">>
      [] l = "continue" ->
            <<"c", "o", "n", "t", "i", "n", "u", "e", ";">>
      [] l = "break L" ->
            <<"b", "r", "e", "a", "k", " ", "L", ";">>
      [] l = "continue L" ->
            <<"c", "o", "n", "t", "i", "n", "u", "e", " ", "L", ";">>
      [] l = "break M" ->
            <<"b", "r", "e", "a", "k", " ", "M", ";">>
      [] l = "name" ->
            <<"a", ";">>
      [] l = "assign" ->
            <<"1", " ", "=", " ", "2", ";">>

RECURSIVE Render(_, _)
Render(wraps, leaf) ==
    IF wraps = <<>> THEN LeafText(leaf)
    ELSE Open(Head(wraps)) \o Render(Tail(wraps), leaf) \o Close(Head(wraps))

Programs ==
    [wraps : UNION {[1..n -> Wrappers] : n \in 0..MaxDepth},
     leaf : Leaves,
     after : Afters]

ProgramText(p) ==
    Render(p.wraps, p.leaf)
    \o (IF p.after = "none" THEN <<>> ELSE <<" ">> \o LeafText(p.after))

\* What the variables of the tokenizer show of the parser's record
ParserSees(P2, e) ==
    /\ T' = P2.input
    /\ tok' = P2.token
    /\ ptok' = P2.prev
    /\ before' = T
    /\ err' = e

\* parse($TEXT, exigent_mode) up to var S = {...}
InitParse ==
    /\ prog \in Programs
    /\ \E exigent_mode \in BOOLEAN : parser = parse_S(ProgramText(prog), exigent_mode)
    /\ ast = <<>>
    /\ T = parser.input
    /\ tok = NoToken
    /\ ptok = NoToken
    /\ before = T
    /\ err = NoEx
    /\ mode = "new"
    /\ pair = NoPair
    /\ snap = NoSnap

\* S.token = next();
ParseStart ==
    /\ mode = "new"
    /\ \E r \in {Call("next", parser, undefined)} :
           /\ parser' = r.S
           /\ ParserSees(r.S, r.ex)
           /\ mode' = IF Ok(r) THEN "toplevel" ELSE "thrown"
    /\ UNCHANGED <<ast, prog, pair, snap>>

\* while (!is("eof")) a.push(statement());
ParseStatement ==
    /\ mode = "toplevel"
    /\ ~is(parser, "eof", null)
    /\ \E r \in {Call("statement", parser, undefined)} :
           /\ parser' = r.S
           /\ ParserSees(r.S, r.ex)
           /\ ast' = IF Ok(r) THEN Append(ast, r.ret) ELSE ast
           /\ mode' = IF Ok(r) THEN "toplevel" ELSE "thrown"
    /\ UNCHANGED <<prog, pair, snap>>

\* return as("toplevel", a); the value returned is <<"toplevel", ast>>
ParseReturn ==
    /\ mode = "toplevel"
    /\ is(parser, "eof", null)
    /\ mode' = "returned"
    /\ UNCHANGED <<T, tok, ptok, before, err, parser, ast, prog, pair, snap>>

NextParse == ParseStart \/ ParseStatement \/ ParseReturn

SpecParse == InitParse /\ [][NextParse]_vars

(***************************************************************************)
(* What the text itself says about an offset, for the properties below.    *)
(***************************************************************************)

\* Whether a newline lies at an offset p with a <= p < b
NewlineBetween(text, a, b) == \E p \in a..(b - 1) : charAt(text, p) = "\n"

\* The number of newlines before offset pos
LineOf(text, pos) == Cardinality({p \in 0..(pos - 1) : charAt(text, p) = "\n"})

\* The offset just after the last newline before offset pos
LineStart(text, pos) ==
    LET nl == {p \in 0..(pos - 1) : charAt(text, p) = "\n"}
    IN  IF nl = {} THEN 0 ELSE (CHOOSE p \in nl : \A q \in nl : q <= p) + 1

\* The offset of the first character at or after p that is neither
\* whitespace nor part of a comment; -1 when a block comment does not end
RECURSIVE SkipTrivia(_, _)
SkipTrivia(text, p) ==
    IF charAt(text, p) \in WHITESPACE_CHARS THEN SkipTrivia(text, p + 1)
    ELSE IF charAt(text, p) = "/" /\ charAt(text, p + 1) = "/"
         THEN LET nl == {q \in (p + 2)..(Len(text) - 1) : charAt(text, q) = "\n"}
              IN  IF nl = {} THEN Len(text) ELSE SkipTrivia(text, Min(nl))
    ELSE IF charAt(text, p) = "/" /\ charAt(text, p + 1) = "*"
         THEN LET cl == {q \in (p + 2)..(Len(text) - 2) :
                            charAt(text, q) = "*" /\ charAt(text, q + 1) = "/"}
              IN  IF cl = {} THEN -1 ELSE SkipTrivia(text, Min(cl) + 2)
    ELSE p

Returned == err.kind = "none" /\ tok.type # "none"

(***************************************************************************)
(* C1: every failure reaches the caller as a JS_Parse_Error; the sentinel   *)
(* EX_EOF is never what a call of the tokenizer throws to its caller.      *)
(***************************************************************************)
C1_OnlyParseErrors == err.kind \in {"none", "JS_Parse_Error"}

(***************************************************************************)
(* C2: the nlb of a token returned by a plain call is true exactly when a  *)
(* newline lies between the end of the previous token (where the cursor    *)
(* was when the call was made) and the start of this token.                *)
(***************************************************************************)
C2_NlbIffNewlineBetween ==
    (Returned /\ mode = "plain") =>
        (tok.nlb <=> NewlineBetween(T.text, before.pos, tok.pos))

(***************************************************************************)
(* C3: line is the number of newlines before pos, and col is pos minus the *)
(* offset just after the last newline before pos.                          *)
(***************************************************************************)
C3_LineColOfPos ==
    Returned =>
        /\ tok.line = LineOf(T.text, tok.pos)
        /\ tok.col = tok.pos - LineStart(T.text, tok.pos)

(***************************************************************************)
(* C4: pos is the offset of the token's first character: for a plain call  *)
(* the first character at or after the cursor that is neither whitespace   *)
(* nor in a comment (the end of the text for eof, and only for eof); for a  *)
(* forced regexp the "/" of the operator token it replaces.                *)
(***************************************************************************)
C4_PosIsFirstCharacter ==
    Returned =>
        IF mode = "force"
        THEN tok.pos = ptok.pos /\ charAt(T.text, tok.pos) = "/"
        ELSE /\ tok.pos = SkipTrivia(T.text, before.pos)
             /\ (tok.type = "eof" <=> tok.pos = Len(T.text))

C4_Witness ==
    /\ Returned /\ mode = "plain"
    /\ tok.type = "name"
    /\ tok.comments_before # <<>>
    /\ ptok.type = "name"
    /\ tok.pos > before.pos + 4

C4_WitnessForce == Returned /\ mode = "force" /\ tok.type = "regexp"

(***************************************************************************)
(* C5: the pos of a returned token is never less than the pos of the token *)
(* the call before returned, plain or forced.                              *)
(***************************************************************************)
C5_PosMonotonic ==
    (Returned /\ ptok.type # "none") => tok.pos >= ptok.pos

C5_Witness ==
    /\ Returned /\ mode = "force"
    /\ ptok.type = "operator"
    /\ tok.pos = ptok.pos
    /\ tok.pos > 0

(***************************************************************************)
(* C6: a plain call made when only whitespace and comments are left        *)
(* returns an eof token and does not throw, and the call after an eof      *)
(* token returns an eof token with the same pos.                           *)
(***************************************************************************)
C6_EofIsSticky ==
    mode = "plain" =>
        /\ SkipTrivia(T.text, before.pos) = Len(T.text) =>
              Returned /\ tok.type = "eof"
        /\ ptok.type = "eof" =>
              Returned /\ tok.type = "eof" /\ tok.pos = ptok.pos

C6_Witness ==
    /\ Returned /\ mode = "plain"
    /\ ptok.type = "eof" /\ tok.type = "eof"
    /\ tok.pos = ptok.pos /\ tok.pos > 0

(***************************************************************************)
(* C10: when the text ends inside a string, a regexp or a block comment,   *)
(* the tokenizer throws a JS_Parse_Error with the message of that          *)
(* construct, and its line, col and pos are those of the offset where the  *)
(* construct starts.                                                       *)
(***************************************************************************)
Unterminated ==
    {"Unterminated string constant", "Unterminated regular expression",
     "Unterminated multiline comment"}

\* The character that starts the construct an "unterminated" message names
StartsConstruct(text, pos, message) ==
    CASE message = "Unterminated string constant" ->
            charAt(text, pos) \in {"\"", "'"}
      [] message = "Unterminated regular expression" ->
            charAt(text, pos) = "/"
      [] message = "Unterminated multiline comment" ->
            charAt(text, pos) = "/" /\ charAt(text, pos + 1) = "*"

C10_UnterminatedAtStart ==
    (err.kind = "JS_Parse_Error" /\ err.message \in Unterminated) =>
        /\ StartsConstruct(T.text, err.pos, err.message)
        /\ err.line = LineOf(T.text, err.pos)
        /\ err.col = err.pos - LineStart(T.text, err.pos)

(***************************************************************************)
(* What the program itself says about its innermost statement, for the     *)
(* properties of parse below.                                              *)
(***************************************************************************)

\* The innermost statement is lexically inside a function body
InFunctionBody(wraps) == \E i \in DOMAIN wraps : wraps[i] = "function"

\* The innermost statement is inside the body of a loop or of a switch of
\* the current function
InLoopOrSwitch(wraps) ==
    \E i \in DOMAIN wraps :
        /\ wraps[i] \in {"for", "for-in", "while", "do", "switch"}
        /\ \A j \in DOMAIN wraps : j > i => wraps[j] # "function"

\* The labels of the labeled statements being parsed at the innermost
\* statement
EnclosingLabels(wraps) ==
    IF \E i \in DOMAIN wraps : wraps[i] = "label" THEN {"L"} ELSE {}

\* The label that a break or continue names
LabelOf(leaf) == IF leaf = "break M" THEN "M" ELSE "L"

\* statement() has been run on the first statement of the top level
FirstParsed == Len(ast) >= 1 \/ (mode = "thrown" /\ Len(ast) = 0)

\* ... and threw a parse error with this message
FirstRaised(message) ==
    /\ mode = "thrown" /\ Len(ast) = 0
    /\ err.kind = "JS_Parse_Error" /\ err.message = message

\* statement() has been run on the statement after the first one
SecondParsed ==
    prog.after # "none" /\ (Len(ast) >= 2 \/ (mode = "thrown" /\ Len(ast) = 1))

\* ... and threw a parse error with this message
SecondRaised(message) ==
    /\ mode = "thrown" /\ Len(ast) = 1
    /\ err.kind = "JS_Parse_Error" /\ err.message = message

\* The program is the text "1 = 2;"
OneIsTwo == prog = [wraps |-> <<>>, leaf |-> "assign", after |-> "none"]

\* C7 as stated: parse of "1 = 2;" raises the parse error "Invalid
\* assignment", in exigent mode and also when exigent_mode is false.
C7_InvalidAssignmentBothModes ==
    (OneIsTwo /\ FirstParsed) => FirstRaised("Invalid assignment")

\* C7 amended: parse of "1 = 2;" raises the parse error "Invalid assignment"
\* in exigent mode; when exigent_mode is false it raises nothing and the
\* statement is ("stat", ("assign", true, ("num", 1), ("num", 2))).
C7_InvalidAssignmentExigentOnly ==
    (OneIsTwo /\ FirstParsed) =>
        IF parser.exigent_mode THEN FirstRaised("Invalid assignment")
        ELSE /\ err.kind = "none"
             /\ ast = <<(<<"stat", <<"assign", TRUE,
                                     <<"num", Normal(1, 0)>>,
                                     <<"num", Normal(2, 0)>>>>>>)>>

\* "1 = 2;" has been parsed to the end with exigent_mode false
C7_Witness == OneIsTwo /\ mode = "returned" /\ ~parser.exigent_mode

\* C8: a return statement raises "'return' outside of function" exactly when
\* it is not lexically inside a function body; inside one, at any depth and
\* inside its loops and blocks, it is accepted; and a return at the top
\* level after a statement that closed its function bodies raises again.
C8_ReturnOutsideFunction ==
    /\ (FirstParsed /\ prog.leaf = "return") =>
            /\ FirstRaised("'return' outside of function")
                    <=> ~InFunctionBody(prog.wraps)
            /\ (InFunctionBody(prog.wraps) /\ ~parser.exigent_mode)
                    => Len(ast) >= 1
    /\ (SecondParsed /\ prog.after = "return") =>
            SecondRaised("'return' outside of function")

\* A return inside a loop of a function body was accepted, and the return
\* at the top level after it raised
C8_Witness ==
    /\ prog.leaf = "return" /\ prog.after = "return"
    /\ Len(prog.wraps) >= 2 /\ prog.wraps[1] = "function"
    /\ InLoopOrSwitch(prog.wraps)
    /\ SecondRaised("'return' outside of function")

\* C9: break or continue with an identifier raises "Label ... without
\* matching loop or statement" exactly when the identifier is not the label
\* of a labeled statement being parsed; without identifier it raises "...
\* not inside a loop or switch" exactly when it is not inside the body of a
\* for, for-in, while or do loop or of a switch of the current function;
\* after the loop or the labeled statement has closed it raises again.
C9_BreakContinue ==
    /\ (FirstParsed /\ prog.leaf \in {"break", "continue"}) =>
            /\ FirstRaised(prog.leaf \o " not inside a loop or switch")
                    <=> ~InLoopOrSwitch(prog.wraps)
            /\ (InLoopOrSwitch(prog.wraps) /\ ~parser.exigent_mode)
                    => Len(ast) >= 1
    /\ (FirstParsed /\ prog.leaf \in {"break L", "continue L", "break M"}) =>
            /\ FirstRaised("Label " \o LabelOf(prog.leaf)
                           \o " without matching loop or statement")
                    <=> LabelOf(prog.leaf) \notin EnclosingLabels(prog.wraps)
            /\ (LabelOf(prog.leaf) \in EnclosingLabels(prog.wraps)
                    /\ ~parser.exigent_mode)
                    => Len(ast) >= 1
    /\ (SecondParsed /\ prog.after = "break") =>
            SecondRaised("break not inside a loop or switch")
    /\ (SecondParsed /\ prog.after = "break L") =>
            SecondRaised("Label L without matching loop or statement")

\* A continue inside a switch of a function body was accepted, and the break
\* at the top level after it raised
C9_Witness ==
    /\ prog.leaf = "continue" /\ prog.after = "break"
    /\ prog.wraps = <<"function", "switch">>
    /\ SecondRaised("break not inside a loop or switch")

\* A break with the label of an enclosing labeled statement was accepted
C9_WitnessLabel ==
    /\ prog.leaf = "break L" /\ prog.wraps = <<"label", "while">>
    /\ mode = "returned"

(***************************************************************************)
(* The words of the tokenizer.                                             *)
(***************************************************************************)
WordAtoms == {"false", "null", "true", "undefined"}

WordOperators == {"in", "instanceof", "typeof", "new", "void", "delete"}

\* The keyword set
WordKeywords ==
    {"break", "case", "catch", "const", "continue", "default", "delete",
     "do", "else", "finally", "for", "function", "if", "in", "instanceof",
     "new", "return", "switch", "throw", "try", "typeof", "var", "void",
     "while", "with"}

\* The type of the token of a word
WordType(word) ==
    CASE word \in WordAtoms -> "atom"
      [] word \in WordOperators -> "operator"
      [] word \in WordKeywords -> "keyword"
      [] OTHER -> "name"

\* The token returned is a word: a name, keyword, atom or operator token
\* whose first character starts an identifier
IsWord ==
    /\ Returned /\ mode = "plain"
    /\ tok.type \in {"name", "keyword", "atom", "operator"}
    /\ is_identifier_start(charAt(T.text, tok.pos))

\* C15: the token of a word has type atom for false, null, true and
\* undefined, operator for in, instanceof, typeof, new, void and delete,
\* keyword for every other word of the keyword set, and name for every
\* other identifier.
C15_WordTypes == IsWord => tok.type = WordType(tok.value)

(***************************************************************************)
(* C19: after a token is returned, regex_allowed is true exactly when the  *)
(* token is an operator other than ++ and --, or one of the keywords       *)
(* return, new, delete, throw, else, case, or one of the punctuations      *)
(* [ { } ( , . ; : and a comment leaves regex_allowed as it was: a "/"     *)
(* after comments starts a regexp exactly when regex_allowed was true      *)
(* before the comments.                                                    *)
(***************************************************************************)
RegexAllowedAfter(t) ==
    \/ t.type = "operator" /\ t.value \notin {"++", "--"}
    \/ t.type = "keyword"
          /\ t.value \in {"return", "new", "delete", "throw", "else", "case"}
    \/ t.type = "punc"
          /\ t.value \in {"[", "{", "}", "(", ",", ".", ";", ":"}

\* A plain call skipped comments and returned a token that starts with "/"
SlashAfterComments ==
    /\ Returned /\ mode = "plain"
    /\ tok.comments_before # <<>>
    /\ charAt(T.text, tok.pos) = "/"

C19_RegexAllowed ==
    Returned =>
        /\ T.regex_allowed <=> RegexAllowedAfter(tok)
        /\ SlashAfterComments =>
              /\ tok.type \in {"regexp", "operator"}
              /\ tok.type = "regexp" <=> before.regex_allowed

\* A regexp was read after a comment that follows a ";"
C19_Witness ==
    /\ SlashAfterComments /\ tok.type = "regexp"
    /\ ptok.type = "punc" /\ ptok.value = ";"

\* A "/" after a comment that follows a name is the operator
C19_WitnessOperator ==
    /\ SlashAfterComments /\ tok.type = "operator"
    /\ ptok.type = "name"

(***************************************************************************)
(* C18: no comment is returned as a token; the comments of the text        *)
(* between the previous token and the one returned are, in the order of    *)
(* the text, the comments_before of the token that the parser takes as its *)
(* current token: the token returned by a plain call, and the regexp that  *)
(* replaces a statement-leading "/"; and the tokenizer's buffer of         *)
(* comments is empty after a token is returned.                            *)
(***************************************************************************)

\* The comments of the text from offset p up to the first character that
\* is neither whitespace nor in a comment, as pairs of type and value
RECURSIVE CommentsFrom(_, _)
CommentsFrom(text, p) ==
    IF charAt(text, p) \in WHITESPACE_CHARS THEN CommentsFrom(text, p + 1)
    ELSE IF charAt(text, p) = "/" /\ charAt(text, p + 1) = "/"
         THEN LET nl == {q \in (p + 2)..(Len(text) - 1) : charAt(text, q) = "\n"}
                  end == IF nl = {} THEN Len(text) ELSE Min(nl)
              IN  <<(<<"comment1", Str(substring(text, p + 2, end))>>)>>
                  \o CommentsFrom(text, end)
    ELSE IF charAt(text, p) = "/" /\ charAt(text, p + 1) = "*"
         THEN LET cl == {q \in (p + 2)..(Len(text) - 2) :
                            charAt(text, q) = "*" /\ charAt(text, q + 1) = "/"}
              IN  IF cl = {} THEN <<>>
                  ELSE <<(<<"comment2", Str(substring(text, p + 2, Min(cl)))>>)>>
                       \o CommentsFrom(text, Min(cl) + 2)
    ELSE <<>>

\* The comments_before of a token, as pairs of type and value
CommentsOf(t) ==
    [i \in DOMAIN t.comments_before |->
        <<t.comments_before[i].type, t.comments_before[i].value>>]

C18_CommentsAttached ==
    Returned =>
        /\ tok.type \notin {"comment1", "comment2"}
        /\ T.comments_before = <<>>
        /\ mode = "plain" => CommentsOf(tok) = CommentsFrom(T.text, before.pos)
        /\ mode = "force" => CommentsOf(tok) = CommentsOf(ptok)

\* C18 for the tokens that plain calls return
C18_CommentsAttachedPlain ==
    (Returned /\ mode = "plain") =>
        /\ tok.type \notin {"comment1", "comment2"}
        /\ T.comments_before = <<>>
        /\ CommentsOf(tok) = CommentsFrom(T.text, before.pos)

(***************************************************************************)
(* parse() on one statement in a chosen place: the program is the text of  *)
(* what stands before the statement (head), the statement, what stands     *)
(* after it (sep), and what closes the head.  The pieces are named by      *)
(* their JavaScript text.                                                  *)
(***************************************************************************)

\* What stands before the statement: nothing, a statement, the head of a
\* while, the keyword do, an opening brace, a label, a comment
Heads ==
    {"", "b;", "while(a)", "do ", "{", "L:", "/*c*/"}

\* What closes a head after the statement and what follows it
HeadClose(head) ==
    CASE head = "do " -> " while(a);"
      [] head = "{" -> "}"
      [] OTHER -> ""

\* Statements that end with a semicolon, written without it
SemiStmts ==
    {"a", "a / b / c", "1 / b", "'s' / b", "/r/ / b", "(a) / b",
     "a[0] / b", "/a/.test(x)", "var a", "throw a", "do ; while(a)",
     "var a = 1, b", "const a = 1", "a ? b : c", "a, b", "new a(b)",
     "[a,,b]", "({a:1,get b(){}})", "a++", "-a", "typeof a", "a.b[c](d)",
     "x = 's'", "x = function(){}", "true", "debugger"}

\* Statements that end without a semicolon of their own
ClosedStmts ==
    {"while(a);", "for(;;);", "switch(a){}",
     "switch(a){case 1:;default:;}", "{}", "if(a);", "if(a);else;",
     "for(a in b);", "for(var a in b);", "for(var a, c in b);",
     "for(var a = 1 in b);", "for(a.b in c);", "function f(){}",
     "try{}catch(e){}finally{}", "with(a);", "M:while(a);",
     "function f(){return a;}", "while(a)break;", "for(;;)continue;"}

\* What follows the statement: a semicolon, nothing, a newline, another
\* statement on the same line, another statement on the next line
Seps ==
    {";", "", "\n", " c;", "\nc;"}

\* The characters of a piece of text
Chars(s) ==
    CASE s = "" ->
            <<>>
      [] s = "b;" ->
            <<"b", ";">>
      [] s = "while(a)" ->
            <<"w", "h", "i", "l", "e", "(", "a", ")">>
      [] s = "do " ->
            <<"d", "o", " ">>
      [] s = "{" ->
            <<"{">>
      [] s = "L:" ->
            <<"L", ":">>
      [] s = "/*c*/" ->
            <<"/", "*", "c", "*", "/">>
      [] s = " while(a);" ->
            <<" ", "w", "h", "i", "l", "e", "(", "a", ")", ";">>
      [] s = "}" ->
            <<"}">>
      [] s = "a" ->
            <<"a">>
      [] s = "a / b / c" ->
            <<"a", " ", "/", " ", "b", " ", "/", " ", "c">>
      [] s = "1 / b" ->
            <<"1", " ", "/", " ", "b">>
      [] s = "'s' / b" ->
            <<"'", "s", "'", " ", "/", " ", "b">>
      [] s = "/r/ / b" ->
            <<"/", "r", "/", " ", "/", " ", "b">>
      [] s = "(a) / b" ->
            <<"(", "a", ")", " ", "/", " ", "b">>
      [] s = "a[0] / b" ->
            <<"a", "[", "0", "]", " ", "/", " ", "b">>
      [] s = "/a/.test(x)" ->
            <<"/", "a", "/", ".", "t", "e", "s", "t", "(", "x", ")">>
      [] s = "var a" ->
            <<"v", "a", "r", " ", "a">>
      [] s = "throw a" ->
            <<"t", "h", "r", "o", "w", " ", "a">>
      [] s = "do ; while(a)" ->
            <<"d", "o", " ", ";", " ", "w", "h", "i", "l", "e", "(", "a",
            ")">>
      [] s = "var a = 1, b" ->
            <<"v", "a", "r", " ", "a", " ", "=", " ", "1", ",", " ", "b">>
      [] s = "const a = 1" ->
            <<"c", "o", "n", "s", "t", " ", "a", " ", "=", " ", "1">>
      [] s = "a ? b : c" ->
            <<"a", " ", "?", " ", "b", " ", ":", " ", "c">>
      [] s = "a, b" ->
            <<"a", ",", " ", "b">>
      [] s = "new a(b)" ->
            <<"n", "e", "w", " ", "a", "(", "b", ")">>
      [] s = "[a,,b]" ->
            <<"[", "a", ",", ",", "b", "]">>
      [] s = "({a:1,get b(){}})" ->
            <<"(", "{", "a", ":", "1", ",", "g", "e", "t", " ", "b", "(",
            ")", "{", "}", "}", ")">>
      [] s = "a++" ->
            <<"a", "+", "+">>
      [] s = "-a" ->
            <<"-", "a">>
      [] s = "typeof a" ->
            <<"t", "y", "p", "e", "o", "f", " ", "a">>
      [] s = "a.b[c](d)" ->
            <<"a", ".", "b", "[", "c", "]", "(", "d", ")">>
      [] s = "x = 's'" ->
            <<"x", " ", "=", " ", "'", "s", "'">>
      [] s = "x = function(){}" ->
            <<"x", " ", "=", " ", "f", "u", "n", "c", "t", "i", "o", "n",
            "(", ")", "{", "}">>
      [] s = "true" ->
            <<"t", "r", "u", "e">>
      [] s = "debugger" ->
            <<"d", "e", "b", "u", "g", "g", "e", "r">>
      [] s = "while(a);" ->
            <<"w", "h", "i", "l", "e", "(", "a", ")", ";">>
      [] s = "for(;;);" ->
            <<"f", "o", "r", "(", ";", ";", ")", ";">>
      [] s = "switch(a){}" ->
            <<"s", "w", "i", "t", "c", "h", "(", "a", ")", "{", "}">>
      [] s = "switch(a){case 1:;default:;}" ->
            <<"s", "w", "i", "t", "c", "h", "(", "a", ")", "{", "c", "a",
            "s", "e", " ", "1", ":", ";", "d", "e", "f", "a", "u", "l",
            "t", ":", ";", "}">>
      [] s = "{}" ->
            <<"{", "}">>
      [] s = "if(a);" ->
            <<"i", "f", "(", "a", ")", ";">>
      [] s = "if(a);else;" ->
            <<"i", "f", "(", "a", ")", ";", "e", "l", "s", "e", ";">>
      [] s = "for(a in b);" ->
            <<"f", "o", "r", "(", "a", " ", "i", "n", " ", "b", ")", ";">>
      [] s = "for(var a in b);" ->
            <<"f", "o", "r", "(", "v", "a", "r", " ", "a", " ", "i", "n",
            " ", "b", ")", ";">>
      [] s = "for(var a, c in b);" ->
            <<"f", "o", "r", "(", "v", "a", "r", " ", "a", ",", " ", "c",
            " ", "i", "n", " ", "b", ")", ";">>
      [] s = "for(var a = 1 in b);" ->
            <<"f", "o", "r", "(", "v", "a", "r", " ", "a", " ", "=", " ",
            "1", " ", "i", "n", " ", "b", ")", ";">>
      [] s = "for(a.b in c);" ->
            <<"f", "o", "r", "(", "a", ".", "b", " ", "i", "n", " ", "c",
            ")", ";">>
      [] s = "function f(){}" ->
            <<"f", "u", "n", "c", "t", "i", "o", "n", " ", "f", "(", ")",
            "{", "}">>
      [] s = "try{}catch(e){}finally{}" ->
            <<"t", "r", "y", "{", "}", "c", "a", "t", "c", "h", "(", "e",
            ")", "{", "}", "f", "i", "n", "a", "l", "l", "y", "{", "}">>
      [] s = "with(a);" ->
            <<"w", "i", "t", "h", "(", "a", ")", ";">>
      [] s = "M:while(a);" ->
            <<"M", ":", "w", "h", "i", "l", "e", "(", "a", ")", ";">>
      [] s = "function f(){return a;}" ->
            <<"f", "u", "n", "c", "t", "i", "o", "n", " ", "f", "(", ")",
            "{", "r", "e", "t", "u", "r", "n", " ", "a", ";", "}">>
      [] s = "while(a)break;" ->
            <<"w", "h", "i", "l", "e", "(", "a", ")", "b", "r", "e", "a",
            "k", ";">>
      [] s = "for(;;)continue;" ->
            <<"f", "o", "r", "(", ";", ";", ")", "c", "o", "n", "t", "i",
            "n", "u", "e", ";">>
      [] s = ";" ->
            <<";">>
      [] s = "\n" ->
            <<"\n">>
      [] s = " c;" ->
            <<" ", "c", ";">>
      [] s = "\nc;" ->
            <<"\n", "c", ";">>

StmtPrograms ==
    [head : Heads, stmt : {""} \cup SemiStmts \cup ClosedStmts, sep : Seps]

StmtProgramText(p) ==
    Chars(p.head) \o Chars(p.stmt) \o Chars(p.sep) \o Chars(HeadClose(p.head))

\* parse($TEXT, exigent_mode) up to var S = {...}, on these programs
InitStmt ==
    /\ prog \in StmtPrograms
    /\ \E exigent_mode \in BOOLEAN :
           parser = parse_S(StmtProgramText(prog), exigent_mode)
    /\ ast = <<>>
    /\ T = parser.input
    /\ tok = NoToken
    /\ ptok = NoToken
    /\ before = T
    /\ err = NoEx
    /\ mode = "new"
    /\ pair = NoPair
    /\ snap = NoSnap

SpecStmt == InitStmt /\ [][NextParse]_vars

(***************************************************************************)
(* The statement of a program of StmtPrograms in the tree parse returned.  *)
(***************************************************************************)

\* The node that parse made of prog.stmt, found below the node of the head
StmtNode ==
    CASE prog.head \in {"", "/*c*/"} -> ast[1]
      [] prog.head = "b;" -> ast[2]
      [] prog.head \in {"while(a)", "do ", "L:"} -> ast[1][3]
      [] prog.head = "{" -> ast[1][2][1]

\* Heads after which parse accepts any statement of the family: in exigent
\* mode a label takes a loop or a switch only
HeadAccepts == ~(parser.exigent_mode /\ prog.head = "L:")

NameNode(n) == <<"name", n>>

DivNode(l, r) == <<"binary", "/", l, r>>

\* The trees of the statements that hold a "/"
SlashStmts ==
    {"a / b / c", "1 / b", "'s' / b", "/r/ / b", "(a) / b", "a[0] / b",
     "/a/.test(x)"}

SlashTree(stmt) ==
    CASE stmt = "a / b / c" ->
            DivNode(DivNode(NameNode("a"), NameNode("b")), NameNode("c"))
      [] stmt = "1 / b" -> DivNode(<<"num", Normal(1, 0)>>, NameNode("b"))
      [] stmt = "'s' / b" -> DivNode(<<"string", "s">>, NameNode("b"))
      [] stmt = "/r/ / b" -> DivNode(<<"regexp", "r", "">>, NameNode("b"))
      [] stmt = "(a) / b" -> DivNode(NameNode("a"), NameNode("b"))
      [] stmt = "a[0] / b" ->
            DivNode(<<"sub", NameNode("a"), <<"num", Normal(0, 0)>>>>,
                    NameNode("b"))
      [] stmt = "/a/.test(x)" ->
            <<"call", <<"dot", <<"regexp", "a", "">>, "test">>,
              <<NameNode("x")>>>>

(***************************************************************************)
(* C11: a "/" after a name, number, string, regexp, ")" or "]" inside an   *)
(* expression is the division operator, so that a / b / c is two binary    *)
(* "/" nodes nested to the left; a "/" that is the first token of a        *)
(* statement starts a regexp, so that /a/.test(x) is a call on a dot of a  *)
(* regexp node, after every head: nothing, ";", ")", do, "{", ":" and a    *)
(* comment.  parse accepts each of these statements followed by ";".       *)
(***************************************************************************)
C11_SlashDisambiguation ==
    (prog.stmt \in SlashStmts /\ prog.sep = ";" /\ HeadAccepts) =>
        /\ mode # "thrown"
        /\ mode = "returned" =>
              StmtNode = <<"stat", SlashTree(prog.stmt)>>

\* The statement /a/.test(x) after while(a), where the tokenizer read the
\* "/" as an operator
C11_Witness ==
    /\ mode = "returned"
    /\ prog.stmt = "/a/.test(x)" /\ prog.sep = ";" /\ prog.head = "while(a)"
    /\ StmtNode[2][1] = "call"

C11_WitnessDivision ==
    /\ mode = "returned"
    /\ prog.stmt = "a / b / c" /\ prog.sep = ";" /\ prog.head = "do "
    /\ StmtNode[2][3][1] = "binary"

(***************************************************************************)
(* The nodes of a tree.  as(tag, ...) makes the tuple <<tag, ...>>; which   *)
(* of the other elements are nodes, lists of nodes or plain values follows *)
(* from the tag, as each caller of as() fills them.                        *)
(***************************************************************************)
Tags ==
    {"toplevel", "block", "stat", "var", "const", "if", "while", "with",
     "do", "for", "for-in", "switch", "break", "continue", "return",
     "throw", "try", "debugger", "label", "function", "defun", "name",
     "atom", "num", "string", "regexp", "array", "object", "dot", "sub",
     "call", "new", "unary-prefix", "unary-postfix", "binary", "assign",
     "conditional", "seq"}

\* A place that holds null or undefined instead of a node
Absent(x) == x = null \/ x = undefined

\* Every node of the tree n has its tag in tags; a place that may be left
\* without a node is passed over when it holds none
RECURSIVE TagsWithin(_, _)
TagsWithin(n, tags) ==
    LET node(x) == TagsWithin(x, tags)
        option(x) == Absent(x) \/ TagsWithin(x, tags)
        nodes(l) == \A i \in 1..Len(l) : TagsWithin(l[i], tags)
        statements(l) == \A i \in 1..Len(l) : Absent(l[i]) \/ TagsWithin(l[i], tags)
    IN  /\ n[1] \in tags
        /\ CASE n[1] = "toplevel" -> statements(n[2])
             [] n[1] = "block" -> Len(n) = 1 \/ statements(n[2])
             [] n[1] \in {"stat", "throw", "dot"} -> node(n[2])
             [] n[1] = "return" -> option(n[2])
             [] n[1] \in {"var", "const"} ->
                   \A i \in 1..Len(n[2]) : Len(n[2][i]) = 1 \/ node(n[2][i][2])
             [] n[1] = "if" -> node(n[2]) /\ option(n[3]) /\ option(n[4])
             [] n[1] \in {"while", "with", "do"} -> node(n[2]) /\ option(n[3])
             [] n[1] = "for" ->
                   option(n[2]) /\ option(n[3]) /\ option(n[4]) /\ option(n[5])
             [] n[1] = "for-in" ->
                   node(n[2]) /\ node(n[3]) /\ node(n[4]) /\ option(n[5])
             [] n[1] = "switch" ->
                   /\ node(n[2])
                   /\ \A i \in 1..Len(n[3]) :
                         option(n[3][i][1]) /\ statements(n[3][i][2])
             [] n[1] = "try" ->
                   /\ statements(n[2])
                   /\ Absent(n[3]) \/ statements(n[3][2])
                   /\ Absent(n[4]) \/ statements(n[4])
             [] n[1] = "label" -> option(n[3])
             [] n[1] \in {"function", "defun"} -> statements(n[4])
             [] n[1] = "array" -> nodes(n[2])
             [] n[1] = "object" -> \A i \in 1..Len(n[2]) : node(n[2][i][2])
             [] n[1] = "sub" -> node(n[2]) /\ node(n[3])
             [] n[1] \in {"call", "new"} -> node(n[2]) /\ nodes(n[3])
             [] n[1] \in {"unary-prefix", "unary-postfix"} -> node(n[3])
             [] n[1] \in {"binary", "assign"} -> node(n[3]) /\ node(n[4])
             [] n[1] = "conditional" -> node(n[2]) /\ node(n[3]) /\ node(n[4])
             [] n[1] = "seq" -> node(n[2]) /\ node(n[3])
             [] OTHER -> TRUE

\* The tags of the nodes of the tree n
TagsOf(n) == {t \in Tags : ~TagsWithin(n, Tags \ {t})}

(***************************************************************************)
(* C12: in every tree that parse returns, the first element of every node  *)
(* is one of the tags of the closed set Tags.                              *)
(***************************************************************************)
C12_ClosedTagSet == mode = "returned" => TagsWithin(<<"toplevel", ast>>, Tags)

\* A returned tree with an object literal that holds a getter, whose nodes
\* are toplevel, while, stat, object, name, num and function
C12_Witness ==
    /\ mode = "returned"
    /\ prog.head = "while(a)" /\ prog.stmt = "({a:1,get b(){}})" /\ prog.sep = ";"
    /\ TagsOf(<<"toplevel", ast>>) =
          {"toplevel", "while", "stat", "object", "name", "num", "function"}

(***************************************************************************)
(* Programs of StmtPrograms that are complete: the statement is there and  *)
(* has its semicolon where it needs one.                                   *)
(***************************************************************************)
Complete ==
    \/ prog.stmt \in SemiStmts /\ prog.sep = ";"
    \/ prog.stmt \in ClosedStmts

\* The statements of the family whose node has a tag of
\* STATEMENTS_WITH_LABELS
LoopStmts ==
    {"do ; while(a)", "while(a);", "for(;;);", "switch(a){}",
     "switch(a){case 1:;default:;}", "while(a)break;", "for(;;)continue;"}

(***************************************************************************)
(* C13: in exigent mode the statement of every label node of a returned    *)
(* tree has the tag for, do, while or switch, and a label before another   *)
(* statement raises a JS_Parse_Error; in lenient mode every statement is   *)
(* accepted after a label.                                                 *)
(***************************************************************************)
C13_LabelTargets ==
    /\ (mode = "returned" /\ parser.exigent_mode /\ prog.head = "L:") =>
          /\ ast[1][1] = "label"
          /\ ast[1][3] # undefined
          /\ ast[1][3][1] \in STATEMENTS_WITH_LABELS
    /\ (mode = "returned" /\ parser.exigent_mode /\ prog.stmt = "M:while(a);") =>
          StmtNode[1] = "label" /\ StmtNode[3][1] \in STATEMENTS_WITH_LABELS
    /\ (parser.exigent_mode /\ prog.head = "L:" /\ Complete) =>
          IF prog.stmt \in LoopStmts
          THEN mode # "thrown"
          ELSE mode # "returned" /\ (mode = "thrown" => err.kind = "JS_Parse_Error")
    /\ (~parser.exigent_mode /\ prog.head = "L:" /\ Complete) =>
          /\ mode # "thrown"
          /\ mode = "returned" => ast[1][1] = "label" /\ ast[1][3][1] \in Tags

\* A label before an expression statement, rejected in exigent mode
C13_Witness ==
    /\ mode = "thrown" /\ parser.exigent_mode
    /\ prog = [head |-> "L:", stmt |-> "a", sep |-> ";"]

\* A label before a loop, accepted in exigent mode
C13_WitnessLoop ==
    /\ mode = "returned" /\ parser.exigent_mode
    /\ prog.head = "L:" /\ prog.stmt = "for(;;);"

\* A label before a for-in statement, accepted in lenient mode
C13_WitnessLenient ==
    /\ mode = "returned" /\ ~parser.exigent_mode
    /\ prog.head = "L:" /\ prog.stmt = "for(a in b);"

(***************************************************************************)
(* What follows the statement of a program of StmtPrograms, read from the  *)
(* text.  No comment stands there, so the token after the statement has    *)
(* nlb exactly when a newline comes first.                                 *)
(***************************************************************************)
RestText == Chars(prog.sep) \o Chars(HeadClose(prog.head))

SemicolonNext == RestText # <<>> /\ RestText[1] = ";"

NewlineNext == RestText # <<>> /\ RestText[1] = "\n"

EofNext == \A i \in 1..Len(RestText) : RestText[i] \in WHITESPACE_CHARS

BraceNext == RestText # <<>> /\ RestText[1] = "}"

\* Programs in which nothing but the end of the statement can fail: after
\* do the body is followed by while, and a label takes a loop only in
\* exigent mode
OnlySemicolonAtStake ==
    /\ prog.stmt \in SemiStmts
    /\ HeadAccepts
    /\ prog.head = "do " => prog.sep \in {";", "", "\n"}

\* The number of statements in the list that holds the statement
StmtListLen == IF prog.head = "{" THEN Len(ast[1][2]) ELSE Len(ast)

(***************************************************************************)
(* C14: at the end of a statement that needs a semicolon, a missing ";" is *)
(* accepted exactly when exigent_mode is false and the next token has nlb, *)
(* or is eof, or is "}"; otherwise it raises a JS_Parse_Error.  A ";"     *)
(* that is there is consumed: it makes no statement of its own.            *)
(***************************************************************************)
C14_SemicolonInsertion ==
    OnlySemicolonAtStake =>
        IF SemicolonNext
           \/ (~parser.exigent_mode /\ (NewlineNext \/ EofNext \/ BraceNext))
        THEN /\ mode # "thrown"
             /\ (mode = "returned" /\ prog.sep \in {";", "", "\n"}) =>
                   StmtListLen = IF prog.head = "b;" THEN 2 ELSE 1
        ELSE /\ mode # "returned"
             /\ mode = "thrown" => err.kind = "JS_Parse_Error"

\* A statement closed by "}" alone, accepted in lenient mode
C14_Witness ==
    /\ mode = "returned" /\ ~parser.exigent_mode
    /\ prog = [head |-> "{", stmt |-> "a", sep |-> ""]

\* The same text rejected in exigent mode
C14_WitnessExigent ==
    /\ mode = "thrown" /\ parser.exigent_mode
    /\ prog = [head |-> "{", stmt |-> "a", sep |-> ""]

\* A statement followed by another on the same line, rejected
C14_WitnessSameLine ==
    /\ mode = "thrown" /\ ~parser.exigent_mode
    /\ prog = [head |-> "", stmt |-> "var a", sep |-> " c;"]

\* A statement followed by another on the next line, accepted
C14_WitnessNextLine ==
    /\ mode = "returned" /\ ~parser.exigent_mode
    /\ prog = [head |-> "", stmt |-> "var a", sep |-> "\nc;"]
    /\ Len(ast) = 2

\* The list of statements that holds the statement of the program
StmtList == IF prog.head = "{" THEN ast[1][2] ELSE ast

\* as("block"): a block node with no children
BareBlock(n) == Len(n) = 1 /\ n[1] = "block"

(***************************************************************************)
(* C16: parse of a text without a token returns toplevel with an empty     *)
(* list of statements, and every bare ";" where a statement may stand      *)
(* makes exactly one node <<"block">>, so that the text ";" gives toplevel  *)
(* with the single statement <<"block">>.                                  *)
(***************************************************************************)
C16_EmptyAndBareSemicolon ==
    /\ (prog.stmt = "" /\ prog.head \in {"", "/*c*/"} /\ prog.sep \in {"", "\n"}) =>
          /\ mode # "thrown"
          /\ mode = "returned" => ast = <<>>
    /\ (prog.stmt = "" /\ prog.sep = ";" /\ HeadAccepts) =>
          /\ mode # "thrown"
          /\ mode = "returned" =>
                /\ BareBlock(StmtNode)
                /\ StmtListLen = IF prog.head = "b;" THEN 2 ELSE 1
    /\ (prog.stmt \in ClosedStmts /\ prog.sep = ";"
            /\ prog.head \in {"", "/*c*/", "b;", "{", "while(a)"}) =>
          /\ mode # "thrown"
          /\ mode = "returned" =>
                /\ BareBlock(StmtList[Len(StmtList)])
                /\ StmtListLen = IF prog.head = "b;" THEN 3 ELSE 2

\* The text ";"
C16_Witness ==
    /\ mode = "returned"
    /\ prog = [head |-> "", stmt |-> "", sep |-> ";"]
    /\ ast = <<<<"block">>>>

\* The empty text
C16_WitnessEmpty ==
    /\ mode = "returned"
    /\ prog = [head |-> "", stmt |-> "", sep |-> ""]
    /\ T.text = <<>>

(***************************************************************************)
(* The for-in statements of the family, by the kind of their head.         *)
(***************************************************************************)
ForInVarStmts ==
    {"for(var a in b);", "for(var a, c in b);", "for(var a = 1 in b);"}

ForInExprStmts == {"for(a in b);", "for(a.b in c);"}

\* A returned tree that holds the statement of the program
ReturnedWithStmt == mode = "returned" /\ HeadAccepts

(***************************************************************************)
(* C20: for a head "var ... in obj" the second child (lhs) of the for-in   *)
(* node is <<"name", n>> with n the name string of the first variable      *)
(* declared; for an expression head the lhs is the init expression.  The   *)
(* strings are compared through ToString, which tells the string "a" from  *)
(* the array <<"a">>.                                                      *)
(***************************************************************************)
C20_ForInLhs ==
    /\ (ReturnedWithStmt /\ prog.stmt \in ForInVarStmts) =>
          /\ StmtNode[1] = "for-in"
          /\ StmtNode[2][1] = "var"
          /\ Len(StmtNode[3]) = 2 /\ StmtNode[3][1] = "name"
          /\ ToString(StmtNode[3][2]) = ToString("a")
    /\ (ReturnedWithStmt /\ prog.stmt \in ForInExprStmts) =>
          StmtNode[1] = "for-in" /\ StmtNode[3] = StmtNode[2]

\* What for_in does: the lhs of a var head holds the first definition, the
\* array of the name and of its initial value if it has one
C20_ForInLhsIsFirstDefinition ==
    /\ (ReturnedWithStmt /\ prog.stmt \in ForInVarStmts) =>
          /\ StmtNode[1] = "for-in"
          /\ StmtNode[3] = <<"name", StmtNode[2][2][1]>>
          /\ ToString(StmtNode[3][2][1]) = ToString("a")
    /\ (ReturnedWithStmt /\ prog.stmt \in ForInExprStmts) =>
          StmtNode[1] = "for-in" /\ StmtNode[3] = StmtNode[2]

C20_Witness ==
    /\ mode = "returned"
    /\ prog = [head |-> "", stmt |-> "for(var a in b);", sep |-> ""]
    /\ ToString(StmtNode[3][2]) = ToString(<<"a">>)

(***************************************************************************)
(* Two tokenizers, or two parses, used in turns.  tokenizer($TEXT) and     *)
(* parse($TEXT) each make their record S as a local variable of the call,  *)
(* and the functions they return close over it; the file has no other      *)
(* variable that a call assigns.  An instance is the record it started     *)
(* with, the record it has now, and what its calls returned so far.  One   *)
(* step is one call on one of the two: S.input() or S.input(true) of a     *)
(* tokenizer, and the first next() or one more statement() of the top      *)
(* level of a parse.                                                       *)
(***************************************************************************)
MaxCalls == 4

PairTexts ==
    {<<>>,
     <<"a", " ", "b">>,
     <<"/", "a", "/", " ", "1">>,
     <<"a", " ", "/", "*", "c", "*", "/", "\n", "'">>,
     <<"1", " ", "/", " ", "2", ";">>,
     <<"'", "s", "'", "\n", ";">>}

PairPrograms ==
    {[head |-> "b;", stmt |-> "/a/.test(x)", sep |-> ";"],
     [head |-> "", stmt |-> "var a", sep |-> "\nc;"],
     [head |-> "L:", stmt |-> "a", sep |-> ";"],
     [head |-> "{", stmt |-> "a / b / c", sep |-> ""]}

\* function tokenizer($TEXT) { var S = {...}; ... return next_token; }
TokenizerInstance(text) ==
    [kind |-> "tokenizer", start |-> tokenizer(text), S |-> tokenizer(text),
     out |-> <<>>]

\* function parse($TEXT, exigent_mode) { var S = {...}; ... }
ParseInstance(text, exigent_mode) ==
    [kind |-> "parse", start |-> parse_S(text, exigent_mode),
     S |-> parse_S(text, exigent_mode), out |-> <<>>]

\* One record S in the file, used by every instance
OneS(p, i) == p[1].S

\* The record S that the functions of instance i close over
OwnS(p, i) == p[i].S

\* The function that a call runs, and its argument
Callee(call) ==
    CASE call \in {"plain", "force"} -> "next_token"
      [] call = "next" -> "next"
      [] call = "statement" -> "statement"

Argument(call) ==
    CASE call = "plain" -> FALSE
      [] call = "force" -> TRUE
      [] OTHER -> undefined

\* What the caller gets from a call: the token returned, or for a parse the
\* token it stands at and the tag and length of the node (none when
\* statement returns undefined), and the exception
CallResult(r, call) ==
    [call |-> call,
     ex |-> r.ex,
     tok |-> CASE call \in {"next", "statement"} -> r.S.token
               [] r.thrown -> NoToken
               [] OTHER -> r.ret,
     tag |-> IF call = "statement" /\ ~r.thrown /\ r.ret # undefined
             THEN r.ret[1] ELSE "",
     len |-> IF call = "statement" /\ ~r.thrown /\ r.ret # undefined
             THEN Len(r.ret) ELSE 0]

InitPair ==
    /\ pair \in
          {<<TokenizerInstance(a), TokenizerInstance(b)>> :
              a \in PairTexts, b \in PairTexts}
          \cup {<<ParseInstance(StmtProgramText(a[1]), a[2]),
                  ParseInstance(StmtProgramText(b[1]), b[2])>> :
                  a \in PairPrograms \X BOOLEAN, b \in PairPrograms \X BOOLEAN}
    /\ T = tokenizer(<<>>)
    /\ tok = NoToken
    /\ ptok = NoToken
    /\ before = T
    /\ err = NoEx
    /\ mode = "new"
    /\ parser = parse_S(<<>>, FALSE)
    /\ ast = <<>>
    /\ prog = NoProgram
    /\ snap = NoSnap

\* Instance i can be called: it has thrown nothing so far
Callable(i, kind) ==
    /\ pair[i].kind = kind
    /\ Len(pair[i].out) < MaxCalls
    /\ pair[i].out # <<>> => pair[i].out[Len(pair[i].out)].ex.kind = "none"

\* One call on instance i
PairCall(i, call) ==
    /\ \E r \in {Call(Callee(call), OwnS(pair, i), Argument(call))} :
           pair' = [pair EXCEPT ![i].S = r.S,
                                ![i].out = Append(@, CallResult(r, call))]
    /\ UNCHANGED <<T, tok, ptok, before, err, mode, parser, ast, prog, snap>>

\* S.input() on one of two tokenizers
PairNextToken == \E i \in 1..2 : Callable(i, "tokenizer") /\ PairCall(i, "plain")

\* S.input(true) on one of two tokenizers, after it returned the operator /
PairForceRegexp ==
    \E i \in 1..2 :
        /\ Callable(i, "tokenizer")
        /\ pair[i].out # <<>>
        /\ pair[i].out[Len(pair[i].out)].tok.type = "operator"
        /\ pair[i].out[Len(pair[i].out)].tok.value = "/"
        /\ PairCall(i, "force")

\* S.token = next() of one of two parses
PairParseStart ==
    \E i \in 1..2 :
        Callable(i, "parse") /\ pair[i].out = <<>> /\ PairCall(i, "next")

\* a.push(statement()) of one of two parses
PairParseStatement ==
    \E i \in 1..2 :
        /\ Callable(i, "parse")
        /\ pair[i].out # <<>>
        /\ ~is(pair[i].S, "eof", null)
        /\ PairCall(i, "statement")

NextPair ==
    PairNextToken \/ PairForceRegexp \/ PairParseStart \/ PairParseStatement

SpecPair == InitPair /\ [][NextPair]_vars

(***************************************************************************)
(* What an instance returns when it runs alone.                            *)
(***************************************************************************)

\* The results of the calls, made one after the other on the record S
RECURSIVE Alone(_, _)
Alone(S, calls) ==
    IF calls = <<>> THEN <<>>
    ELSE LET r == Call(Callee(Head(calls)), S, Argument(Head(calls)))
         IN  IF r.thrown THEN <<CallResult(r, Head(calls))>>
             ELSE <<CallResult(r, Head(calls))>> \o Alone(r.S, Tail(calls))

\* The calls that were made on an instance
CallsOf(out) == [k \in 1..Len(out) |-> out[k].call]

\* Two tokens with the same fields; the values are compared when the types
\* are the same
SameToken(x, y) ==
    /\ x.type = y.type
    /\ x.value = y.value
    /\ x.line = y.line /\ x.col = y.col /\ x.pos = y.pos
    /\ x.nlb = y.nlb
    /\ x.comments_before = y.comments_before

SameResult(x, y) ==
    /\ x.call = y.call
    /\ x.ex = y.ex
    /\ x.tag = y.tag /\ x.len = y.len
    /\ SameToken(x.tok, y.tok)

C17_WitnessParse ==
    /\ pair # NoPair
    /\ pair[1].kind = "parse"
    /\ pair[1].start.input.text # pair[2].start.input.text
    /\ Len(pair[1].out) = 3 /\ Len(pair[2].out) = 3
    /\ pair[1].out[3].tag = "stat" /\ pair[2].out[3].tag = "stat"

(***************************************************************************)
(* The counters of parse at a statement that throws.  A throw leaves the   *)
(* record S as it is, except that the finally of each in_loop(cont) on the *)
(* way out takes 1 from S.in_loop; $function_ has no finally.  So the      *)
(* record of a parse that threw tells what S.in_loop, S.in_function and    *)
(* S.labels were where the throw was made.                                 *)
(***************************************************************************)
LoopWrappers == {"for", "for-in", "while", "do", "switch"}

\* The enclosing statements that run their body with in_loop(cont)
LoopCount(wraps) == Cardinality({i \in DOMAIN wraps : wraps[i] \in LoopWrappers})

\* Those of them that lie inside the innermost enclosing function body
LoopsSinceFunction(wraps) ==
    Cardinality({i \in DOMAIN wraps :
                    /\ wraps[i] \in LoopWrappers
                    /\ \A j \in DOMAIN wraps : j > i => wraps[j] # "function"})

\* break M; names a label that no program has, and throws where it stands
ThrownAtLeaf ==
    /\ prog.leaf = "break M"
    /\ FirstRaised("Label M without matching loop or statement")

\* S.in_loop at the place of the throw
InLoopAtThrow == parser.in_loop + LoopCount(prog.wraps)

(***************************************************************************)
(* C21: in_loop is 0 at the start of every function body and has after the *)
(* body the value it had before it, so that a break or continue without    *)
(* label directly inside a function body nested in a loop raises a parse   *)
(* error and one after that function inside the same loop is accepted;    *)
(* in_loop is never negative where a statement is parsed.                  *)
(***************************************************************************)
C21_InLoopAcrossFunctions ==
    /\ mode # "thrown" => parser.in_loop = 0 /\ parser.in_function = 0
    /\ ThrownAtLeaf =>
          /\ InLoopAtThrow = LoopsSinceFunction(prog.wraps)
          /\ InLoopAtThrow >= 0
    /\ (FirstParsed /\ prog.leaf \in {"break", "continue"}
            /\ Len(prog.wraps) = 2 /\ prog.wraps[1] \in LoopWrappers) =>
          /\ prog.wraps[2] = "function" =>
                FirstRaised(prog.leaf \o " not inside a loop or switch")
          /\ prog.wraps[2] = "block" => Len(ast) >= 1

\* C21 as stated: the same, and in_loop is never negative at all.  When a
\* statement of a function body nested in a loop throws, in_loop is 0
\* there, and the finally of in_loop(cont) of the loop makes it -1.
C21_InLoopNeverNegative == C21_InLoopAcrossFunctions /\ parser.in_loop >= 0

\* Inside a while, after function g(){} and a closed loop: in_loop was 1
C21_Witness ==
    /\ ThrownAtLeaf
    /\ prog.wraps = <<"while", "block">>
    /\ InLoopAtThrow = 1

\* Directly inside a function body nested in a loop: in_loop was 0
C21_WitnessBody ==
    /\ ThrownAtLeaf
    /\ prog.wraps = <<"for", "function">>
    /\ InLoopAtThrow = 0

\* A break after function g(){} inside the same loop, accepted
C21_WitnessAccepted ==
    /\ mode = "returned"
    /\ prog.leaf = "break" /\ prog.wraps = <<"do", "block">>

(***************************************************************************)
(* parse() on chains of names joined by binary operators: a op b op c ...  *)
(* as an expression statement, and as the head of a for statement, where   *)
(* expression(true, true) reads the chain with no_in set and the head goes *)
(* on with " in " and one more name: for(a op b ... in z);                 *)
(***************************************************************************)
MaxOps == 3

\* One operator of each row of PRECEDENCE, in for the row of the relations,
\* and a second one of the row of + and -
ChainOps == {"||", "&&", "|", "^", "&", "==", "in", ">>", "+", "-", "*"}

OpText(op) ==
    CASE op = "||" -> <<"|", "|">>
      [] op = "&&" -> <<"&", "&">>
      [] op = "==" -> <<"=", "=">>
      [] op = "in" -> <<"i", "n">>
      [] op = ">>" -> <<">", ">">>
      [] OTHER -> <<op>>

AtomNames == <<"a", "b", "c", "d", "e", "f">>

\* The text of the chain from its k-th operator on
RECURSIVE ChainTail(_, _)
ChainTail(ops, k) ==
    IF k > Len(ops) THEN <<>>
    ELSE <<" ">> \o OpText(ops[k]) \o <<" ", AtomNames[k + 1]>>
         \o ChainTail(ops, k + 1)

\* The head of a for statement has the chain and one more operator, the
\* last in
ExprPrograms ==
    [ops : UNION {[1..n -> ChainOps] : n \in 1..MaxOps}, ctx : {"stat"}]
    \cup [ops : UNION {[1..n -> ChainOps] : n \in 1..(MaxOps - 1)},
          ctx : {"for"}]

\* The operators of the text: the head of for has one more, the last in
OpsOf(p) == IF p.ctx = "for" THEN Append(p.ops, "in") ELSE p.ops

ExprProgramText(p) ==
    IF p.ctx = "for"
    THEN <<"f", "o", "r", "(", "a">> \o ChainTail(OpsOf(p), 1) \o <<")", ";">>
    ELSE <<"a">> \o ChainTail(OpsOf(p), 1) \o <<";">>

\* parse($TEXT, exigent_mode) up to var S = {...}, on these programs
InitExpr ==
    /\ prog \in ExprPrograms
    /\ \E exigent_mode \in BOOLEAN :
           parser = parse_S(ExprProgramText(prog), exigent_mode)
    /\ ast = <<>>
    /\ T = parser.input
    /\ tok = NoToken
    /\ ptok = NoToken
    /\ before = T
    /\ err = NoEx
    /\ mode = "new"
    /\ pair = NoPair
    /\ snap = NoSnap

SpecExpr == InitExpr /\ [][NextParse]_vars

\* The tree that the table gives to the names lo..hi with the operators
\* between them: the root is the operator of the lowest row, and of those
\* of that row the last one, so that operators of one row nest to the left
RECURSIVE ChainTree(_, _, _)
ChainTree(ops, lo, hi) ==
    IF lo = hi THEN <<"name", AtomNames[lo]>>
    ELSE LET lowest == CHOOSE k \in lo..(hi - 1) :
                           \A j \in lo..(hi - 1) :
                               \/ PRECEDENCE[ops[k]] < PRECEDENCE[ops[j]]
                               \/ PRECEDENCE[ops[k]] = PRECEDENCE[ops[j]] /\ j <= k
         IN  <<"binary", ops[lowest], ChainTree(ops, lo, lowest),
               ChainTree(ops, lowest + 1, hi)>>

\* The first in of the head of a for statement
FirstIn(ops) == CHOOSE k \in DOMAIN ops : ops[k] = "in" /\ \A j \in 1..(k - 1) : ops[j] # "in"

(***************************************************************************)
(* C23: the tree of a chain of names joined by binary operators is the one *)
(* of the ten rows of PRECEDENCE with left associativity: an operator of a *)
(* higher row binds tighter, two of the same row nest to the left; with    *)
(* no_in set, in the head of a for statement, the first in ends the        *)
(* expression, and what follows it is the object of the for-in.            *)
(***************************************************************************)
C23_PrecedenceClimbing ==
    /\ mode # "thrown"
    /\ (mode = "returned" /\ prog.ctx = "stat") =>
          ast = <<(<<"stat", ChainTree(prog.ops, 1, Len(prog.ops) + 1)>>)>>
    /\ (mode = "returned" /\ prog.ctx = "for") =>
          /\ Len(ast) = 1 /\ ast[1][1] = "for-in"
          /\ ast[1][2] = ChainTree(OpsOf(prog), 1, FirstIn(OpsOf(prog)))
          /\ ast[1][4] = ChainTree(OpsOf(prog), FirstIn(OpsOf(prog)) + 1,
                                   Len(prog.ops) + 2)

\* a - b - c is binary(-, binary(-, a, b), c)
C23_Witness ==
    /\ mode = "returned"
    /\ prog = [ops |-> <<"-", "-">>, ctx |-> "stat"]
    /\ ast[1][2] = <<"binary", "-",
                     <<"binary", "-", <<"name", "a">>, <<"name", "b">>>>,
                     <<"name", "c">>>>

\* for(a + b in c in d); has the init a + b and the object c in d
C23_WitnessNoIn ==
    /\ mode = "returned"
    /\ prog = [ops |-> <<"+", "in">>, ctx |-> "for"]
    /\ ast[1][2] = <<"binary", "+", <<"name", "a">>, <<"name", "b">>>>
    /\ ast[1][4] = <<"binary", "in", <<"name", "c">>, <<"name", "d">>>>

(***************************************************************************)
(* parse() on one statement that assigns to a target, or applies ++ or -- *)
(* to it, before or after: T = b;  T += b;  ++T;  --T;  T++;  T--;         *)
(***************************************************************************)
AssignTargets ==
    {"a", "this", "a.b", "a[0]", "new a()", "a()", "1", "'s'",
     "(a + b)", "[a]", "(!a)", "(a = b)", "(a ? b : c)"}

TargetText(t) ==
    CASE t = "a" ->
            <<"a">>
      [] t = "this" ->
            <<"t", "h", "i", "s">>
      [] t = "a.b" ->
            <<"a", ".", "b">>
      [] t = "a[0]" ->
            <<"a", "[", "0", "]">>
      [] t = "new a()" ->
            <<"n", "e", "w", " ", "a", "(", ")">>
      [] t = "a()" ->
            <<"a", "(", ")">>
      [] t = "1" ->
            <<"1">>
      [] t = "'s'" ->
            <<"'", "s", "'">>
      [] t = "(a + b)" ->
            <<"(", "a", " ", "+", " ", "b", ")">>
      [] t = "[a]" ->
            <<"[", "a", "]">>
      [] t = "(!a)" ->
            <<"(", "!", "a", ")">>
      [] t = "(a = b)" ->
            <<"(", "a", " ", "=", " ", "b", ")">>
      [] t = "(a ? b : c)" ->
            <<"(", "a", " ", "?", " ", "b", " ", ":", " ", "c", ")">>

\* The tag of the node that the target is parsed to
TargetTag(t) ==
    CASE t = "a" -> "name"
      [] t = "this" -> "name"
      [] t = "a.b" -> "dot"
      [] t = "a[0]" -> "sub"
      [] t = "new a()" -> "new"
      [] t = "a()" -> "call"
      [] t = "1" -> "num"
      [] t = "'s'" -> "string"
      [] t = "(a + b)" -> "binary"
      [] t = "[a]" -> "array"
      [] t = "(!a)" -> "unary-prefix"
      [] t = "(a = b)" -> "assign"
      [] t = "(a ? b : c)" -> "conditional"

AssignForms == {"=", "+=", "pre++", "pre--", "post++", "post--"}

AssignPrograms == [target : AssignTargets, form : AssignForms]

AssignProgramText(p) ==
    CASE p.form = "=" -> TargetText(p.target) \o <<" ", "=", " ", "b", ";">>
      [] p.form = "+=" ->
            TargetText(p.target) \o <<" ", "+", "=", " ", "b", ";">>
      [] p.form = "pre++" -> <<"+", "+">> \o TargetText(p.target) \o <<";">>
      [] p.form = "pre--" -> <<"-", "-">> \o TargetText(p.target) \o <<";">>
      [] p.form = "post++" -> TargetText(p.target) \o <<"+", "+", ";">>
      [] p.form = "post--" -> TargetText(p.target) \o <<"-", "-", ";">>

\* parse($TEXT, exigent_mode) up to var S = {...}, on these programs
InitAssign ==
    /\ prog \in AssignPrograms
    /\ \E exigent_mode \in BOOLEAN :
           parser = parse_S(AssignProgramText(prog), exigent_mode)
    /\ ast = <<>>
    /\ T = parser.input
    /\ tok = NoToken
    /\ ptok = NoToken
    /\ before = T
    /\ err = NoEx
    /\ mode = "new"
    /\ pair = NoPair
    /\ snap = NoSnap

SpecAssign == InitAssign /\ [][NextParse]_vars

\* The targets that the claim lists
ListedTarget(t) ==
    /\ TargetTag(t) \in {"dot", "sub", "new", "call", "name"}
    /\ t # "this"

\* The message of croak() for the form
InvalidMessage(form) ==
    CASE form \in {"=", "+="} -> "Invalid assignment"
      [] form \in {"pre++", "post++"} -> "Invalid use of ++ operator"
      [] form \in {"pre--", "post--"} -> "Invalid use of -- operator"

\* The tree of the statement has the form's node around the target's node
TargetAccepted ==
    /\ Len(ast) = 1 /\ ast[1][1] = "stat" /\ Len(ast[1][2]) >= 3
    /\ LET n == ast[1][2]
       IN  /\ n[1] = CASE prog.form \in {"=", "+="} -> "assign"
                       [] prog.form \in {"pre++", "pre--"} -> "unary-prefix"
                       [] prog.form \in {"post++", "post--"} -> "unary-postfix"
           /\ prog.form = "=" => n[2] = TRUE
           /\ prog.form = "+=" => n[2] = "+"
           /\ prog.form \in {"pre++", "post++"} => n[2] = "++"
           /\ prog.form \in {"pre--", "post--"} => n[2] = "--"
           /\ n[3][1] = TargetTag(prog.target)
           /\ prog.target = "this" => n[3] = <<"name", "this">>

(***************************************************************************)
(* C24: with exigent_mode set, an assignment operator and a prefix or      *)
(* postfix ++ or -- is accepted when the node of its target has the tag    *)
(* dot, sub, new, call, or name with a value other than this, and raises a *)
(* parse error for any other target; with exigent_mode unset every target  *)
(* is accepted.                                                            *)
(***************************************************************************)
C24_AssignableTargets ==
    /\ mode = "thrown" =>
          /\ parser.exigent_mode /\ ~ListedTarget(prog.target)
          /\ FirstRaised(InvalidMessage(prog.form))
    /\ Len(ast) >= 1 =>
          /\ ~parser.exigent_mode \/ ListedTarget(prog.target)
          /\ TargetAccepted

\* a() = b; is accepted with exigent_mode set
C24_Witness ==
    /\ mode = "returned" /\ parser.exigent_mode
    /\ prog = [target |-> "a()", form |-> "="]
    /\ TargetAccepted

\* this++; raises with exigent_mode set
C24_WitnessThis ==
    /\ mode = "thrown" /\ parser.exigent_mode
    /\ prog = [target |-> "this", form |-> "post++"]

\* ++(a + b); is accepted with exigent_mode unset
C24_WitnessLenient ==
    /\ mode = "returned" /\ ~parser.exigent_mode
    /\ prog = [target |-> "(a + b)", form |-> "pre++"]
    /\ TargetAccepted

(***************************************************************************)
(* parse() on one statement that holds a list: an array literal, an object *)
(* literal, the arguments of a call or of new.  An item of the list is an  *)
(* element ("e") or, where no expression stands before a comma, a hole.    *)
(***************************************************************************)
MaxItems == 3

ListKinds == {"array", "object", "call", "new"}

ListPrograms ==
    {p \in [kind : ListKinds,
            items : UNION {[1..n -> {"e", "hole"}] : n \in 0..MaxItems},
            trailing : BOOLEAN] :
        p.trailing => (p.items # <<>> /\ p.items[Len(p.items)] = "e")}

\* The text of the items from the k-th on: a hole is a comma by itself, an
\* element has a comma after it when an item follows, or as trailing comma
RECURSIVE ItemsText(_, _)
ItemsText(p, k) ==
    IF k > Len(p.items) THEN <<>>
    ELSE (IF p.items[k] = "hole" THEN <<",">>
          ELSE (IF p.kind = "object" THEN <<AtomNames[k], ":", AtomNames[k]>>
                ELSE <<AtomNames[k]>>)
               \o (IF k < Len(p.items) \/ p.trailing THEN <<",">> ELSE <<>>))
         \o ItemsText(p, k + 1)

ListProgramText(p) ==
    CASE p.kind = "array" ->
            <<"x", " ", "=", " ", "[">> \o ItemsText(p, 1) \o <<"]", ";">>
      [] p.kind = "object" ->
            <<"x", " ", "=", " ", "{">> \o ItemsText(p, 1) \o <<"}", ";">>
      [] p.kind = "call" -> <<"f", "(">> \o ItemsText(p, 1) \o <<")", ";">>
      [] p.kind = "new" ->
            <<"n", "e", "w", " ", "f", "(">> \o ItemsText(p, 1)
            \o <<")", ";">>

\* parse($TEXT, exigent_mode) up to var S = {...}, on these programs
InitList ==
    /\ prog \in ListPrograms
    /\ \E exigent_mode \in BOOLEAN :
           parser = parse_S(ListProgramText(prog), exigent_mode)
    /\ ast = <<>>
    /\ T = parser.input
    /\ tok = NoToken
    /\ ptok = NoToken
    /\ before = T
    /\ err = NoEx
    /\ mode = "new"
    /\ pair = NoPair
    /\ snap = NoSnap

SpecList == InitList /\ [][NextParse]_vars

\* The list that the tree of the statement holds
ListOf ==
    CASE prog.kind \in {"array", "object"} -> ast[1][2][4][2]
      [] prog.kind \in {"call", "new"} -> ast[1][2][3]

\* The statement has been parsed to a tree of the program's kind
ListParsed ==
    /\ Len(ast) = 1 /\ ast[1][1] = "stat"
    /\ IF prog.kind \in {"array", "object"}
       THEN /\ ast[1][2][1] = "assign" /\ ast[1][2][4][1] = prog.kind
       ELSE /\ ast[1][2][1] = prog.kind /\ ast[1][2][2] = <<"name", "f">>

\* The node of the k-th item
ItemNode(k) ==
    IF prog.items[k] = "hole" THEN <<"atom", "undefined">>
    ELSE IF prog.kind = "object"
         THEN <<AtomNames[k], <<"name", AtomNames[k]>>>>
         ELSE <<"name", AtomNames[k]>>

HasHole == \E k \in DOMAIN prog.items : prog.items[k] = "hole"

\* A comma stands directly before the closing bracket
CommaBeforeClose ==
    prog.items # <<>>
    /\ (prog.trailing \/ prog.items[Len(prog.items)] = "hole")

\* The list has a trailing comma, and no hole where none is allowed
TrailingOnly == prog.trailing /\ (prog.kind = "array" \/ ~HasHole)

\* What may not be parsed: a hole outside an array literal, a comma directly
\* before the closing bracket of arguments, and with exigent_mode set a
\* comma directly before any closing bracket
ListRaises ==
    \/ prog.kind # "array" /\ HasHole
    \/ prog.kind \in {"call", "new"} /\ CommaBeforeClose
    \/ parser.exigent_mode /\ CommaBeforeClose

C25_WitnessObjectExigent ==
    /\ mode = "thrown" /\ parser.exigent_mode
    /\ prog = [kind |-> "object", items |-> <<"e">>, trailing |-> TRUE]

\* f(a,); raises with exigent_mode unset
C25_WitnessCall ==
    /\ mode = "thrown" /\ ~parser.exigent_mode
    /\ prog = [kind |-> "call", items |-> <<"e">>, trailing |-> TRUE]

\* x = {a:a,}; is parsed to an object of one property
C25_WitnessObject ==
    /\ mode = "returned" /\ ~parser.exigent_mode
    /\ prog = [kind |-> "object", items |-> <<"e">>, trailing |-> TRUE]
    /\ Len(ListOf) = 1

(***************************************************************************)
(* parse() on one switch statement whose body is a sequence of parts:      *)
(* "case" is case <name>:, "default" is default:, and "stmt" is <name>;    *)
(* with the name of the part's position.                                   *)
(***************************************************************************)
MaxParts == 4

SwitchPrograms == UNION {[1..n -> {"case", "default", "stmt"}] : n \in 0..MaxParts}

RECURSIVE PartsText(_, _)
PartsText(parts, k) ==
    IF k > Len(parts) THEN <<>>
    ELSE (CASE parts[k] = "case" ->
                 <<"c", "a", "s", "e", " ", AtomNames[k], ":">>
            [] parts[k] = "default" ->
                 <<"d", "e", "f", "a", "u", "l", "t", ":">>
            [] parts[k] = "stmt" -> <<AtomNames[k], ";">>)
         \o PartsText(parts, k + 1)

SwitchProgramText(parts) ==
    <<"s", "w", "i", "t", "c", "h", "(", "x", ")", "{">>
    \o PartsText(parts, 1) \o <<"}">>

\* parse($TEXT, exigent_mode) up to var S = {...}, on these programs
InitSwitch ==
    /\ prog \in SwitchPrograms
    /\ \E exigent_mode \in BOOLEAN :
           parser = parse_S(SwitchProgramText(prog), exigent_mode)
    /\ ast = <<>>
    /\ T = parser.input
    /\ tok = NoToken
    /\ ptok = NoToken
    /\ before = T
    /\ err = NoEx
    /\ mode = "new"
    /\ pair = NoPair
    /\ snap = NoSnap

SpecSwitch == InitSwitch /\ [][NextParse]_vars

\* The positions of case and default
Openers(parts) == {i \in DOMAIN parts : parts[i] # "stmt"}

\* The k-th of them in source order
NthOpener(parts, k) ==
    CHOOSE i \in Openers(parts) :
        Cardinality({j \in Openers(parts) : j < i}) = k - 1

\* The opener opened most recently before the statement at position j
OpenerOf(parts, j) ==
    CHOOSE i \in Openers(parts) :
        i < j /\ \A h \in Openers(parts) : h < j => h <= i

\* The statements of the bucket opened at position i, in source order
StatementsOf(parts, i) ==
    LET mine == {j \in DOMAIN parts :
                    /\ parts[j] = "stmt" /\ j > i
                    /\ OpenerOf(parts, j) = i}
    IN  [h \in 1..Cardinality(mine) |->
            <<"stat", <<"name", AtomNames[i + h]>>>>]

BucketOf(parts, i) ==
    <<(IF parts[i] = "case" THEN <<"name", AtomNames[i]>> ELSE null),
      StatementsOf(parts, i)>>

Buckets(parts) ==
    [k \in 1..Cardinality(Openers(parts)) |->
        BucketOf(parts, NthOpener(parts, k))]

LeadingStatement(parts) == parts # <<>> /\ parts[1] = "stmt"

(***************************************************************************)
(* C26: in the body of a switch each case <expr>: and each default: opens  *)
(* a new bucket, every statement is appended to the bucket opened most     *)
(* recently, the buckets are in source order, and a statement before the   *)
(* first case or default raises a parse error.                             *)
(***************************************************************************)
C26_SwitchBuckets ==
    /\ mode = "thrown" =>
          /\ LeadingStatement(prog)
          /\ FirstRaised("Unexpected token: name (a)")
    /\ Len(ast) >= 1 =>
          /\ ~LeadingStatement(prog)
          /\ Len(ast) = 1 /\ ast[1][1] = "switch"
          /\ ast[1][2] = <<"name", "x">>
          /\ Len(ast[1][3]) = Cardinality(Openers(prog))
          /\ ast[1][3] = Buckets(prog)

\* switch(x){case a:b;default:d;} has the buckets (a, [b]) and (null, [d])
C26_Witness ==
    /\ mode = "returned"
    /\ prog = <<"case", "stmt", "default", "stmt">>
    /\ Len(ast[1][3]) = 2
    /\ ast[1][3][1][2] = <<(<<"stat", <<"name", "b">>>>)>>
    /\ ast[1][3][2][2] = <<(<<"stat", <<"name", "d">>>>)>>

\* switch(x){a;case b:} raises at a
C26_WitnessLeading ==
    /\ mode = "thrown"
    /\ prog = <<"stmt", "case">>

(***************************************************************************)
(* A caller of next_token.context: it reads some tokens, takes what        *)
(* context() returns, reads some tokens, gives it back with context(s),    *)
(* and reads again.  snap.S is the object that the tokenizer's variable S  *)
(* refers to and snap.s the object that the caller holds; snap.taken is    *)
(* the content that the object had when the caller took it.                *)
(***************************************************************************)
MaxReads == 2

ContextAlphabet == {"a", "1", " "}

ContextTexts == UNION {[1..n -> ContextAlphabet] : n \in 0..MaxLen}

InitContext ==
    /\ \E text \in ContextTexts : T = tokenizer(text)
    /\ tok = NoToken
    /\ ptok = NoToken
    /\ before = T
    /\ err = NoEx
    /\ mode = "new"
    /\ parser = parse_S(<<>>, FALSE)
    /\ ast = <<>>
    /\ prog = NoProgram
    /\ pair = NoPair
    /\ snap = [NoSnap EXCEPT !.taken = T]

\* The content of the object that a reference leads to
ObjectAt(ref) == T

\* s = next_token.context(): nc is undefined, and S itself is returned
ContextTake ==
    /\ snap.phase = "new"
    /\ snap' = [snap EXCEPT !.s = snap.S, !.taken = ObjectAt(snap.S),
                            !.phase = "taken"]
    /\ UNCHANGED <<T, tok, ptok, before, err, mode, parser, ast, prog, pair>>

\* next_token() by the caller, who keeps the tokens read after context();
\* before context() it reads one token at most
ContextRead ==
    /\ err.kind = "none"
    /\ Len(snap.first) < MaxReads /\ Len(snap.again) < MaxReads
    /\ snap.phase = "new" => mode = "new"
    /\ Input(FALSE)
    /\ mode' = "plain"
    /\ snap' = CASE snap.phase = "new" -> snap
                 [] snap.phase = "taken" ->
                       [snap EXCEPT !.first = Append(@, tok')]
                 [] snap.phase = "restored" ->
                       [snap EXCEPT !.again = Append(@, tok')]
    /\ UNCHANGED <<parser, ast, prog, pair>>

\* next_token.context(s): if (nc) S = nc
ContextRestore ==
    /\ snap.phase = "taken"
    /\ snap' = [snap EXCEPT !.S = IF snap.s # undefined THEN snap.s ELSE @,
                            !.phase = "restored"]
    /\ T' = ObjectAt(snap'.S)
    /\ UNCHANGED <<tok, ptok, before, err, mode, parser, ast, prog, pair>>

NextContext == ContextTake \/ ContextRead \/ ContextRestore

SpecContext == InitContext /\ [][NextContext]_vars

\* The k-th call after context(s) returned what the k-th call after
\* s = context() returned
SameAsFirst(k) == SameToken(snap.again[k], snap.first[k])

(***************************************************************************)
(* C27: context() takes a snapshot of the state of the scan and context(s) *)
(* restores it: after s = context(), some calls of next_token, and         *)
(* context(s), the calls that follow return the same tokens as the calls   *)
(* made right after s = context(); what s holds is not changed by the      *)
(* scanning done after it was taken.                                       *)
(***************************************************************************)
C27_ContextRestores ==
    /\ snap.phase # "new" => ObjectAt(snap.s) = snap.taken
    /\ snap.phase = "restored" =>
          \A k \in DOMAIN snap.again : k \in DOMAIN snap.first => SameAsFirst(k)

\* What the code does: context() gives out the record S itself and
\* context(s) puts the same record back, so that neither changes the scan,
\* and the calls after context(s) go on where the calls before it ended
C27_ContextIsTheRecord ==
    /\ snap.phase # "new" => snap.s = snap.S
    /\ (snap.phase = "restored" /\ snap.again # <<>>) =>
          LET all == snap.first \o snap.again
              alone == Alone(snap.taken, [k \in DOMAIN all |-> "plain"])
          IN  \A k \in DOMAIN all : SameToken(alone[k].tok, all[k])

\* On the text "a 1" the call after s = context() returns a and the call
\* after context(s) returns 1
C27_WitnessGoesOn ==
    /\ snap.phase = "restored"
    /\ snap.taken.text = <<"a", " ", "1">> /\ snap.taken.pos = 0
    /\ Len(snap.first) = 1 /\ snap.first[1].value = "a"
    /\ Len(snap.again) = 1 /\ snap.again[1].type = "num"

(***************************************************************************)
(* The tokenizer on texts of operator characters.                          *)
(***************************************************************************)
MaxOpLen == 4

OperatorTexts == UNION {[1..n -> OPERATOR_CHARS] : n \in 1..MaxOpLen}

InitOperator ==
    /\ \E text \in OperatorTexts : T = tokenizer(text)
    /\ tok = NoToken
    /\ ptok = NoToken
    /\ before = T
    /\ err = NoEx
    /\ mode = "new"
    /\ parser = parse_S(<<>>, FALSE)
    /\ ast = <<>>
    /\ prog = NoProgram
    /\ pair = NoPair
    /\ snap = NoSnap

SpecOperator == InitOperator /\ [][NextToken]_vars

\* The string of a sequence of characters
RECURSIVE Join(_)
Join(chars) == IF chars = <<>> THEN "" ELSE Head(chars) \o Join(Tail(chars))

\* The input that remained when the latest call was made
Remaining == SubSeq(before.text, before.pos + 1, Len(before.text))

\* The lengths of the prefixes of the remaining input that are operators
OperatorPrefixes ==
    {k \in 1..Len(Remaining) : Join(SubSeq(Remaining, 1, k)) \in OPERATORS}

\* The latest call started at an operator character
AtOperatorChar ==
    /\ mode = "plain"
    /\ Remaining # <<>> /\ Remaining[1] \in OPERATOR_CHARS

(***************************************************************************)
(* C28: when the scan starts at an operator character, the value of the    *)
(* operator token is the longest member of OPERATORS that is a prefix of   *)
(* the remaining input, and the cursor stands right after it; growing by   *)
(* one character at a time does not stop short of it, because every prefix *)
(* of an operator made of operator characters is an operator.              *)
(***************************************************************************)
C28_LongestOperator ==
    AtOperatorChar =>
        /\ err.kind = "none" /\ tok.type = "operator"
        /\ tok.pos = before.pos
        /\ \E k \in OperatorPrefixes :
               /\ \A j \in OperatorPrefixes : j <= k
               /\ tok.value = Join(SubSeq(Remaining, 1, k))
               /\ T.pos = before.pos + k
        /\ \A k \in OperatorPrefixes : \A j \in 1..k : j \in OperatorPrefixes

\* >>>= is read as one token
C28_Witness ==
    /\ AtOperatorChar
    /\ Remaining = <<">", ">", ">", "=">>
    /\ tok.value = ">>>=" /\ T.pos = 4

\* In ==!= the second token is !=, the longest operator at its start
C28_WitnessSecond ==
    /\ AtOperatorChar
    /\ before.text = <<"=", "=", "!", "=">> /\ before.pos = 2
    /\ tok.value = "!="

(***************************************************************************)
(* parse() on texts that lead to a place where a statement starts, through *)
(* up to MaxHeads heads, and have a tail there: nothing, so that the text  *)
(* ends where the statement is due; a ")", which $statement refuses before *)
(* it reads anything; a statement that starts with "/"; a statement that   *)
(* starts with a name, for which $statement calls peek(); a labeled break   *)
(* to a label that no statement has.                                       *)
(***************************************************************************)
MaxHeads == 2

TailHeads ==
    {"if(a)", "if(a)b;else ", "while(a)", "for(;;)", "for(a in b)",
     "with(a)", "L:", "{", "switch(a){case 1:", "do ",
     "function f(){", "b;", "do;while(a)\n"}

\* The text of a head, up to the place of the statement that follows it
HeadText(h) ==
    CASE h = "if(a)" ->
            <<"i", "f", "(", "a", ")">>
      [] h = "if(a)b;else " ->
            <<"i", "f", "(", "a", ")", "b", ";", "e", "l", "s", "e", " ">>
      [] h = "while(a)" ->
            <<"w", "h", "i", "l", "e", "(", "a", ")">>
      [] h = "for(;;)" ->
            <<"f", "o", "r", "(", ";", ";", ")">>
      [] h = "for(a in b)" ->
            <<"f", "o", "r", "(", "a", " ", "i", "n", " ", "b", ")">>
      [] h = "with(a)" ->
            <<"w", "i", "t", "h", "(", "a", ")">>
      [] h = "L:" ->
            <<"L", ":">>
      [] h = "{" ->
            <<"{">>
      [] h = "switch(a){case 1:" ->
            <<"s", "w", "i", "t", "c", "h", "(", "a", ")", "{", "c", "a",
              "s", "e", " ", "1", ":">>
      [] h = "do " ->
            <<"d", "o", " ">>
      [] h = "function f(){" ->
            <<"f", "u", "n", "c", "t", "i", "o", "n", " ", "f", "(", ")",
              "{">>
      [] h = "b;" ->
            <<"b", ";">>
      [] h = "do;while(a)\n" ->
            <<"d", "o", ";", "w", "h", "i", "l", "e", "(", "a", ")", "\n">>

\* The text that ends the statement of a head, after the statement
HeadEnd(h) ==
    CASE h = "if(a)" ->
            <<>>
      [] h = "if(a)b;else " ->
            <<>>
      [] h = "while(a)" ->
            <<>>
      [] h = "for(;;)" ->
            <<>>
      [] h = "for(a in b)" ->
            <<>>
      [] h = "with(a)" ->
            <<>>
      [] h = "L:" ->
            <<>>
      [] h = "{" ->
            <<"}">>
      [] h = "switch(a){case 1:" ->
            <<"}">>
      [] h = "do " ->
            <<" ", "w", "h", "i", "l", "e", "(", "a", ")", ";">>
      [] h = "function f(){" ->
            <<"}">>
      [] h = "b;" ->
            <<>>
      [] h = "do;while(a)\n" ->
            <<>>

Tails ==
    {"", ")", "/b/.test(x);", "c;", "c:d;", "M:break N;"}

TailText(t) ==
    CASE t = "" ->
            <<>>
      [] t = ")" ->
            <<")">>
      [] t = "/b/.test(x);" ->
            <<"/", "b", "/", ".", "t", "e", "s", "t", "(", "x", ")", ";">>
      [] t = "c;" ->
            <<"c", ";">>
      [] t = "c:d;" ->
            <<"c", ":", "d", ";">>
      [] t = "M:break N;" ->
            <<"M", ":", "b", "r", "e", "a", "k", " ", "N", ";">>

TailPrograms ==
    [heads : UNION {[1..n -> TailHeads] : n \in 0..MaxHeads}, tail : Tails]

RECURSIVE HeadsText(_)
HeadsText(heads) ==
    IF heads = <<>> THEN <<>> ELSE HeadText(Head(heads)) \o HeadsText(Tail(heads))

RECURSIVE HeadsEnd(_)
HeadsEnd(heads) ==
    IF heads = <<>> THEN <<>> ELSE HeadsEnd(Tail(heads)) \o HeadEnd(Head(heads))

\* The text ends at the tail when the tail is nothing or the ")"
TailProgramText(p) ==
    HeadsText(p.heads) \o TailText(p.tail)
    \o (IF p.tail \in {"", ")"} THEN <<>> ELSE HeadsEnd(p.heads))

\* parse($TEXT, exigent_mode) up to var S = {...}, on these programs
InitTail ==
    /\ prog \in TailPrograms
    /\ \E exigent_mode \in BOOLEAN :
           parser = parse_S(TailProgramText(prog), exigent_mode)
    /\ ast = <<>>
    /\ T = parser.input
    /\ tok = NoToken
    /\ ptok = NoToken
    /\ before = T
    /\ err = NoEx
    /\ mode = "new"
    /\ pair = NoPair
    /\ snap = NoSnap

SpecTail == InitTail /\ [][NextParse]_vars

\* The last statement of a list of statements, in the order of the text:
\* the statement of the tail, when the text goes on to the end of the tail
RECURSIVE LastStatement(_)
LastStatement(l) ==
    LET n == l[Len(l)]
    IN  CASE n[1] = "if" ->
                 IF n[4] = undefined \/ n[4] = null THEN LastStatement(<<n[3]>>)
                 ELSE LastStatement(<<n[4]>>)
          [] n[1] \in {"while", "with", "do", "label"} -> LastStatement(<<n[3]>>)
          [] n[1] \in {"for", "for-in"} -> LastStatement(<<n[5]>>)
          [] n[1] = "block" -> LastStatement(n[2])
          [] n[1] = "switch" -> LastStatement(n[3][Len(n[3])][2])
          [] n[1] = "defun" -> LastStatement(n[4])
          [] OTHER -> n

\* /b/.test(x); read as a regexp
RegexpStatement ==
    <<"stat", <<"call", <<"dot", <<"regexp", "b", "">>, "test">>,
                <<(<<"name", "x">>)>>>>>>

\* $statement threw at the ")" of the tail, where it stands; with
\* exigent_mode set the ")" after do;while(a) is refused by semicolon()
ThrownAtTail ==
    /\ prog.tail = ")"
    /\ ~(/\ parser.exigent_mode
         /\ prog.heads # <<>>
         /\ prog.heads[Len(prog.heads)] = "do;while(a)\n")
    /\ mode = "thrown"
    /\ err.message = "Unexpected token: punc ())"
    /\ parser.token.type = "punc" /\ parser.token.value = ")"
    /\ parser.token.pos = Len(HeadsText(prog.heads))

(***************************************************************************)
(* C29: S.peeked is null each time a statement starts to be parsed: before *)
(* every statement of the top level, and where $statement refuses a token  *)
(* before reading on, at every place of a statement.  Where a statement    *)
(* starts with the operator /, no token has been scanned ahead and the     *)
(* cursor of the tokenizer is one character past the /, so that the        *)
(* regexp read there is the one of the text and no token is lost.          *)
(***************************************************************************)
C29_PeekedNullAtStatement ==
    /\ mode = "toplevel" => parser.peeked.type = "none"
    /\ ThrownAtTail => parser.peeked.type = "none"
    /\ (mode = "toplevel" /\ is(parser, "operator", "/")) =>
          parser.input.pos = parser.token.pos + 1
    /\ (mode = "returned" /\ prog.tail = "/b/.test(x);") =>
          LastStatement(ast) = RegexpStatement

\* while(a)L:) : the statement after the label, reached through peek(),
\* starts with S.peeked null
C29_Witness ==
    /\ ThrownAtTail
    /\ prog.heads = <<"while(a)", "L:">>
    /\ parser.peeked.type = "none"

\* do;while(a) and a newline: the next statement of the top level starts at
\* the operator /
C29_WitnessForce ==
    /\ mode = "toplevel" /\ is(parser, "operator", "/")
    /\ prog.heads = <<"do;while(a)\n">> /\ prog.tail = "/b/.test(x);"
    /\ Len(ast) = 1

\* if(a)do /b/.test(x); while(a); the statement after do starts at the
\* operator / and is read as the regexp
C29_WitnessNested ==
    /\ mode = "returned"
    /\ prog.heads = <<"if(a)", "do ">> /\ prog.tail = "/b/.test(x);"
    /\ LastStatement(ast) = RegexpStatement

\* The heads that are followed by one statement, their body
BodyHeads ==
    {"if(a)", "if(a)b;else ", "while(a)", "for(;;)", "for(a in b)", "with(a)",
     "L:", "do "}

\* The text ends where the body of the innermost head is due
EndsAtBody ==
    /\ prog.tail = ""
    /\ prog.heads # <<>>
    /\ prog.heads[Len(prog.heads)] \in BodyHeads

\* Every place of a statement in the statements of l holds a node; the
\* fourth element of an if node is left out by a statement without else
RECURSIVE AllPresent(_)
AllPresent(l) ==
    \A i \in 1..Len(l) :
        LET n == l[i]
        IN  /\ n # undefined /\ n # null
            /\ CASE n[1] = "if" ->
                      /\ AllPresent(<<n[3]>>)
                      /\ n[4] = undefined \/ n[4] = null \/ AllPresent(<<n[4]>>)
                 [] n[1] \in {"while", "with", "do", "label"} ->
                      AllPresent(<<n[3]>>)
                 [] n[1] \in {"for", "for-in"} -> AllPresent(<<n[5]>>)
                 [] n[1] = "block" -> Len(n) = 1 \/ AllPresent(n[2])
                 [] n[1] = "switch" ->
                      \A k \in 1..Len(n[3]) : AllPresent(n[3][k][2])
                 [] n[1] = "defun" -> AllPresent(n[4])
                 [] OTHER -> TRUE

(***************************************************************************)
(* C30: when parse returns, every place of a statement in the tree holds a *)
(* node: the bodies of if, else, while, for, for-in, with and label, and   *)
(* the elements of the lists of block, case and top level; a text that     *)
(* ends where the body of such a statement is due raises a parse error.    *)
(***************************************************************************)
C30_NoMissingBody ==
    /\ mode = "returned" => AllPresent(ast)
    /\ (EndsAtBody /\ mode \in {"returned", "thrown"}) =>
          mode = "thrown" /\ err.kind = "JS_Parse_Error"

\* What the code does: $statement has no case for the token eof and returns
\* undefined there.  With exigent_mode unset, a text that ends where a body
\* is due, all its heads being whole statements or statements with one
\* body other than do, is parsed to a tree with undefined as that body;
\* after else the tree is the one of the if statement without else.  With
\* exigent_mode set, a label before the end of the text raises a TypeError.
C30_BodyUndefinedAtEof ==
    /\ (/\ EndsAtBody /\ mode \in {"returned", "thrown"}
        /\ ~parser.exigent_mode
        /\ \A i \in DOMAIN prog.heads :
               prog.heads[i] \in (BodyHeads \ {"do "}) \cup {"b;", "do;while(a)\n"})
       => /\ mode = "returned"
          /\ prog.heads[Len(prog.heads)] # "if(a)b;else " => ~AllPresent(ast)
    /\ (/\ EndsAtBody /\ mode \in {"returned", "thrown"}
        /\ parser.exigent_mode
        /\ prog.heads = <<"L:">>)
       => mode = "thrown" /\ err.kind = "TypeError"
    /\ (mode = "returned" /\ prog.tail # "") => AllPresent(ast)

\* parse("while(a)") returns the statement ("while", ("name", "a"),
\* undefined)
C30_WitnessReturned ==
    /\ mode = "returned"
    /\ prog = [heads |-> <<"while(a)">>, tail |-> ""]
    /\ Len(ast) = 1 /\ ast[1][1] = "while" /\ ast[1][3] = undefined

\* The heads that are whole statements, and those that open a list of
\* statements
WholeHeads == {"b;", "do;while(a)\n"}

ListHeads == {"{", "switch(a){case 1:", "function f(){"}

\* The heads whose statements are still being parsed after the heads given:
\* a whole statement ends the statements with one body that it is the body
\* of, back to the innermost list
RECURSIVE OpenHeads(_, _)
OpenHeads(heads, open) ==
    IF heads = <<>> THEN open
    ELSE IF Head(heads) \in WholeHeads
         THEN LET lists == {i \in DOMAIN open : open[i] \in ListHeads}
                  keep == IF lists = {} THEN 0
                          ELSE CHOOSE i \in lists : \A j \in lists : j <= i
              IN  OpenHeads(Tail(heads), SubSeq(open, 1, keep))
         ELSE OpenHeads(Tail(heads), Append(open, Head(heads)))

\* The labels of the labeled statements being parsed where the tail starts,
\* outermost first; each of them is L
LabelsAround ==
    LET open == OpenHeads(prog.heads, <<>>)
    IN  [k \in 1..Cardinality({i \in DOMAIN open : open[i] = "L:"}) |-> "L"]

\* break N; of the tail M:break N; threw where it stands
ThrownAtBreak ==
    /\ prog.tail = "M:break N;"
    /\ mode = "thrown"
    /\ err.kind = "JS_Parse_Error"
    /\ err.message = "Label N without matching loop or statement"

(***************************************************************************)
(* C22: the labels stack holds the labels of the labeled statements that   *)
(* are being parsed, outermost first: a label is pushed before its         *)
(* statement and popped right after it, so that the stack is after a       *)
(* labeled statement what it was before it, and is empty when parse        *)
(* returns.  The stack at a statement is read from the record of a parse   *)
(* that threw there.                                                       *)
(***************************************************************************)
C22_LabelsStack ==
    /\ mode # "thrown" => parser.labels = <<>>
    /\ ThrownAtBreak => parser.labels = Append(LabelsAround, "M")
    /\ ThrownAtTail => parser.labels = LabelsAround

\* Inside while(a), L: and M:, the stack is L, M
C22_Witness ==
    /\ ThrownAtBreak
    /\ prog.heads = <<"while(a)", "L:">>
    /\ parser.labels = <<"L", "M">>

\* After the statement L:b; has ended the stack is what it was before, and
\* inside M: it is M
C22_WitnessPopped ==
    /\ ThrownAtBreak
    /\ prog.heads = <<"L:", "b;">>
    /\ parser.labels = <<"M">>

\* Inside L: and a block the stack is L
C22_WitnessBlock ==
    /\ ThrownAtTail
    /\ prog.heads = <<"L:", "{">>
    /\ parser.labels = <<"L">>

(***************************************************************************)
(* Labels and function bodies (break_cont, labeled_statement, $function_). *)
(* $function_ saves and clears S.in_loop around the body and leaves        *)
(* S.labels as it is.                                                      *)
(***************************************************************************)
\* The labels of the labeled statements that enclose the innermost statement
\* inside the innermost function body around it
LabelsOfFunction(wraps) ==
    IF \E i \in DOMAIN wraps :
           /\ wraps[i] = "label"
           /\ \A j \in DOMAIN wraps : j > i => wraps[j] # "function"
    THEN {"L"} ELSE {}

\* C31: a break L or continue L raises "Label L without matching loop or
\* statement" exactly when L is not the label of a statement that encloses
\* it inside the same function body; a label outside the surrounding
\* function is not active inside the function's body.
C31_LabelsPerFunction ==
    (FirstParsed /\ prog.leaf \in {"break L", "continue L"}) =>
        (FirstRaised("Label L without matching loop or statement")
            <=> "L" \notin LabelsOfFunction(prog.wraps))

\* What the code does instead: inside the function body of
\* L:function f(){break L;} the break is accepted
C31_LabelCrossesFunction ==
    /\ prog.wraps = <<"label", "function">>
    /\ prog.leaf \in {"break L", "continue L"}
    /\ mode = "returned"
    /\ Len(ast[1]) = 3 /\ ast[1][1] = "label" /\ ast[1][3][1] = "defun"
    /\ ast[1][3][4] = <<(<<(IF prog.leaf = "break L" THEN "break"
                            ELSE "continue"), "L">>)>>

(***************************************************************************)
(* Progress of the tokenizer and of the loops of parse, on the programs    *)
(* with a list: what each call and each iteration leaves of the text is    *)
(* less than what it found, so parse ends.                                 *)
(***************************************************************************)
\* Every call of next_token from S on that returns a token other than eof
\* leaves the cursor further on than it found it
RECURSIVE TokensAdvance(_)
TokensAdvance(S) ==
    LET r == Call("next_token", S, FALSE)
    IN  \/ r.thrown
        \/ r.ret.type = "eof"
        \/ r.S.pos > S.pos /\ TokensAdvance(r.S)

\* S.token of Q is a later token than S.token of P: next() has run
Consumed(P, Q) == Q.token.pos > P.token.pos

\* next() called n times
RECURSIVE Skip(_, _)
Skip(P, n) == IF n = 0 THEN P ELSE Skip(Call("next", P, undefined).S, n - 1)

\* The record S at the first statement of the program
AtFirstStatement ==
    Skip(parse_S(ListProgramText(prog), parser.exigent_mode), 1)

\* The record S where the loop of the list starts, after the opening bracket
AtListStart ==
    Skip(AtFirstStatement, IF prog.kind = "call" THEN 2 ELSE 3)

\* The arguments that array_, subscripts and new_ give to expr_list
ListArguments ==
    IF prog.kind = "array"
    THEN [closing |-> "]", allow_trailing_comma |-> ~parser.exigent_mode,
          allow_empty |-> TRUE]
    ELSE [closing |-> ")", allow_trailing_comma |-> FALSE,
          allow_empty |-> FALSE]

\* The iterations of the loop of expr_list from S = P on, one record each:
\* whether it raised, whether it consumed a token, and whether it started at
\* a comma
RECURSIVE ExprListIterations(_, _, _, _)
ExprListIterations(P, x, first, a) ==
    IF is(P, "punc", x.closing) THEN <<>>
    ELSE LET b == expr_list_body(P, x, first, a)
         IN  <<[raised |-> b.thrown,
                consumed |-> Consumed(P, b.S),
                comma |-> is(P, "punc", ",")]>>
             \o (IF b.thrown THEN <<>>
                 ELSE IF b.ret.break THEN <<>>
                 ELSE ExprListIterations(b.S, x, FALSE, b.ret.a))

\* The iterations of the loop of object_ from S = P on
RECURSIVE ObjectIterations(_, _)
ObjectIterations(P, first) ==
    IF is(P, "punc", "}") THEN <<>>
    ELSE LET c == IF first THEN Ret(P, undefined) ELSE Call("expect", P, ",")
             p == Call("object_property", c.S, undefined)
         IN  IF c.thrown
             THEN <<[raised |-> TRUE, consumed |-> FALSE,
                     comma |-> is(P, "punc", ",")]>>
             ELSE IF ~c.S.exigent_mode /\ is(c.S, "punc", "}")
             THEN <<[raised |-> FALSE, consumed |-> Consumed(P, c.S),
                     comma |-> is(P, "punc", ",")]>>
             ELSE <<[raised |-> p.thrown, consumed |-> Consumed(P, p.S),
                     comma |-> is(P, "punc", ",")]>>
                  \o (IF p.thrown THEN <<>>
                      ELSE ObjectIterations(p.S, FALSE))

\* The iterations of the loop that parses the list of the program
Iterations ==
    IF prog.kind = "object" THEN ObjectIterations(AtListStart, TRUE)
    ELSE ExprListIterations(AtListStart, ListArguments, TRUE, <<>>)

\* The statement of the program consumes a token or raises
StatementAdvances ==
    \E r \in {Call("statement", AtFirstStatement, undefined)} :
        r.thrown \/ Consumed(AtFirstStatement, r.S)

\* Every iteration consumes a token or raises
EveryIterationAdvances ==
    \A k \in DOMAIN Iterations :
        Iterations[k].raised \/ Iterations[k].consumed

\* An iteration that neither consumes a token nor raises is the first one of
\* an array literal that starts with a comma, and the iteration after it
\* consumes that comma or raises
OnlyLeadingHoleStays ==
    \A k \in DOMAIN Iterations :
        (~Iterations[k].raised /\ ~Iterations[k].consumed) =>
            /\ k = 1 /\ prog.kind = "array" /\ Iterations[k].comma
            /\ Len(Iterations) >= 2
            /\ Iterations[2].raised \/ Iterations[2].consumed

\* The top level loop runs the statement once, stands at eof after it, and
\* parse returns
TopLevelEnds ==
    /\ Len(ast) <= 1
    /\ (mode = "toplevel" /\ Len(ast) = 1) => is(parser, "eof", null)
    /\ mode = "returned" => Len(ast) = 1

C32_WitnessRaised ==
    /\ mode = "thrown"
    /\ prog = [kind |-> "call", items |-> <<"hole", "e">>,
               trailing |-> FALSE]
    /\ Len(Iterations) = 1 /\ Iterations[1].raised

(***************************************************************************)
(* The position in the errors of the parser (croak, token_error,           *)
(* unexpected, labeled_statement).  token_error hands the token's line and *)
(* col to croak and no pos, and croak takes what it is not given from the  *)
(* tokenizer: tokpos, the pos of the token scanned last.                   *)
(***************************************************************************)
\* line, col and pos of the tokens that the tokenizer returns from S on
RECURSIVE TokenPlaces(_)
TokenPlaces(S) ==
    LET r == Call("next_token", S, FALSE)
    IN  IF r.thrown THEN {}
        ELSE {<<r.ret.line, r.ret.col, r.ret.pos>>}
             \cup (IF r.ret.type = "eof" THEN {} ELSE TokenPlaces(r.S))

\* parse has thrown a parse error
ParseErrorRaised == mode = "thrown" /\ err.kind = "JS_Parse_Error"

\* C33: the line, col and pos of a parse error raised by the parser are
\* those of one token of the text: pos is the pos of the token that line and
\* col are taken from.
C33_PositionOfOneToken ==
    ParseErrorRaised =>
        <<err.line, err.col, err.pos>>
            \in TokenPlaces(tokenizer(ProgramText(prog)))

\* What the code does instead: pos is the pos of the token that S.token
\* holds when the error is raised, the one scanned last, whatever token line
\* and col are taken from
C33_PosOfTokenScannedLast ==
    ParseErrorRaised =>
        /\ err.pos = parser.token.pos
        /\ err.pos = parser.input.tokpos
        /\ \E p \in TokenPlaces(tokenizer(ProgramText(prog))) :
               p[1] = err.line /\ p[2] = err.col

\* L:a; with exigent_mode set has raised "Unexpected token: name (a)" with
\* the col of a and the pos of the eof token after the statement
C33_LabelErrorPos ==
    /\ ParseErrorRaised /\ parser.exigent_mode
    /\ prog = [wraps |-> <<"label">>, leaf |-> "name", after |-> "none"]
    /\ err.message = "Unexpected token: name (a)"
    /\ err.line = 0 /\ err.col = 2 /\ err.pos = 4

====
